---- MODULE Spec2Model ----
(***************************************************************************)
(* A model of the NES emulator core: the memory bus (src/bus.rs), the PPU  *)
(* register file (src/ppu/mod.rs, src/ppu/registers/*.rs) and the 6502     *)
(* interpreter (src/cpu.rs, src/opcodes.rs).                               *)
(*                                                                         *)
(* Conventions.                                                            *)
(*  - A u8 is a number in 0..255, a u16 a number in 0..65535; wrapping     *)
(*    arithmetic is written with an explicit modulus.                      *)
(*  - A zero-initialised fixed array ([u8; N]) is a function whose domain  *)
(*    is the set of cells written so far; a cell outside the domain holds  *)
(*    its initial value 0 (ArrGet / ArrSet).                               *)
(*  - A ROM image (Vec<u8>) is a record [len, patch]: the byte at index i  *)
(*    is the image byte of the cartridge file unless patch overrides it.   *)
(*    No code path of the program writes patch.                            *)
(*  - A Rust panic is an outcome: every operation returns a record with a  *)
(*    field panic that is "none" or names the panic; a panicked machine    *)
(*    takes no further step.                                               *)
(***************************************************************************)
EXTENDS Integers, Sequences, FiniteSets, TLC

VARIABLES
    cpu,      \* CPU registers: register_a, register_x, register_y, status, stack_ptr, program_counter
    bus,      \* Bus: vram (the 2 KB CPU RAM), ppu (the PPU record), prg_rom
    panic,    \* "none", or the panic that aborted the session
    running,  \* TRUE while run_with_callback is executing its loop
    last,     \* the last operation performed and what it returned
    pushed,   \* history: bytes pushed by PHA and not yet pulled, with the stack pointer they started from
    hist,     \* history: whether Status was read, and the parity of the Address and of the Scroll writes since (or since construction)
    calls,    \* history: the JSRs executed and not yet returned from, each with its address and the stack pointer before it
    nops,     \* number of API calls made so far (bounded by MaxOps)
    overflow_checks  \* the build: TRUE when integer overflow panics (debug), FALSE when it wraps (release)

vars == <<cpu, bus, panic, running, last, pushed, calls, hist, nops, overflow_checks>>

Byte == 0..255

-----------------------------------------------------------------------------
(* Bit operations on naturals.                                             *)

RECURSIVE BitAnd(_, _)
BitAnd(a, b) ==
    IF a = 0 \/ b = 0 THEN 0
    ELSE (a % 2) * (b % 2) + 2 * BitAnd(a \div 2, b \div 2)

RECURSIVE BitOr(_, _)
BitOr(a, b) ==
    IF a = 0 THEN b
    ELSE IF b = 0 THEN a
    ELSE (IF a % 2 = 1 \/ b % 2 = 1 THEN 1 ELSE 0) + 2 * BitOr(a \div 2, b \div 2)

RECURSIVE BitXor(_, _)
BitXor(a, b) ==
    IF a = 0 THEN b
    ELSE IF b = 0 THEN a
    ELSE ((a + b) % 2) + 2 * BitXor(a \div 2, b \div 2)

\* `let x = v; body`: the value is computed once and the body uses it
Let(v, Body(_)) == CHOOSE y \in { Body(x) : x \in {v} } : TRUE
\* the same for a body that is an action
LetAct(v, Act(_)) == \E x \in {v} : Act(x)

\* u8 arithmetic
WrapAdd8(a, b) == (a + b) % 256
WrapSub8(a, b) == (a - b + 256) % 256
Shl8(a) == (a * 2) % 256
Shr8(a) == a \div 2
\* u16 arithmetic
WrapAdd16(a, b) == (a + b) % 65536

\* (hi << 8) | lo  and  u16::from_le_bytes([lo, hi])
FromLeBytes(lo, hi) == hi * 256 + lo

-----------------------------------------------------------------------------
(* Arrays and ROM images.                                                  *)

ArrGet(arr, i) == IF i \in DOMAIN arr THEN arr[i] ELSE 0
ArrSet(arr, i, d) == (i :> d) @@ arr
EmptyArr == [j \in {} |-> 0]

\* cartridge file contents: the byte at offset i of the program ROM and of
\* the character ROM (any bytes; chosen so that the two 16 KB banks differ)
PrgImage(i) == (i + 1 + 3 * (i \div 16384)) % 256
ChrImage(i) == (2 + 5 * i) % 256

RomGetPrg(rom, i) == IF i \in DOMAIN rom.patch THEN rom.patch[i] ELSE PrgImage(i)
RomGetChr(rom, i) == IF i \in DOMAIN rom.patch THEN rom.patch[i] ELSE ChrImage(i)

-----------------------------------------------------------------------------
(* Constants of the program.                                               *)

RAM == 0
RAM_MIRRORS_END == 8191
PPU_REGISTERS == 8192
PPU_REGISTERS_MIRRORS_END == 16383
ROM_START == 32768

PRG_ROM_BANK_SIZE == 16384
CHR_ROM_BANK_SIZE == 8192

NAME_TABLE_SIZE == 1024
CHR_ROM_END_ADDR == 8191
NAME_TABLE_START_ADDR == 8192
NAME_TABLE_END_ADDR == 12287
PALETTE_START_ADDR == 16128
BEFORE_MIRROR_RANGE == 16383

STACK_ADDR == 256
STACK_PTR_INIT == 253

-----------------------------------------------------------------------------
(* Bit-flag registers (bitflags!): contains / insert / remove / set.       *)

FlagContains(bits, flag) == BitAnd(bits, flag) # 0
FlagInsert(bits, flag) == BitOr(bits, flag)
FlagRemove(bits, flag) == BitAnd(bits, 255 - flag)
FlagSet(bits, flag, value) == IF value THEN FlagInsert(bits, flag) ELSE FlagRemove(bits, flag)

\* ControlRegister
VRAM_INCREMENT_MODE == 4
GENERATE_NMI == 128
\* StatusRegister
SPRITE_OVERFLOW == 32
SPRITE_0_HIT == 64
IN_VBLANK == 128

-----------------------------------------------------------------------------
(* src/rom.rs: the part of Rom::new the core depends on.                   *)

\* Rom::new: the mirroring mode decoded from control byte 1 of the header
RomMirrorMode(control_byte1) ==
    LET is_vertical == BitAnd(control_byte1, 1) = 1
        is_four_screen == BitAnd(control_byte1, 8) = 1
    IN  IF is_four_screen THEN "FOUR_SCREEN"
        ELSE IF is_vertical THEN "VERTICAL"
        ELSE "HORIZONTAL"

\* Rom::new: the two images cut out of the file
RomNew(prg_banks, chr_banks, control_byte1) ==
    [ prg_rom     |-> [len |-> prg_banks * PRG_ROM_BANK_SIZE, patch |-> EmptyArr],
      chr_rom     |-> [len |-> chr_banks * CHR_ROM_BANK_SIZE, patch |-> EmptyArr],
      mirror_mode |-> RomMirrorMode(control_byte1) ]

-----------------------------------------------------------------------------
(* src/ppu/registers/address.rs                                            *)

AddressRegisterNew == [hi |-> 0, lo |-> 0, address_latch |-> TRUE]

AddressRegisterGet(r) == FromLeBytes(r.lo, r.hi)

AddressRegisterSet(r, addr) ==
    [r EXCEPT !.hi = addr \div 256, !.lo = BitAnd(addr, 255)]

\* a mirror that leaves the address as it is
AddressRegisterMirror_Off(r) == r
AddressRegisterMirror(r) ==
    LET full_address == AddressRegisterGet(r)
    IN  IF full_address <= BEFORE_MIRROR_RANGE THEN r
        ELSE AddressRegisterSet(r, BitAnd(full_address, BEFORE_MIRROR_RANGE))

AddressRegisterResetLatch(r) == [r EXCEPT !.address_latch = FALSE]

AddressRegisterWrite(r, data) ==
    [ AddressRegisterMirror(IF r.address_latch THEN [r EXCEPT !.hi = data]
                                               ELSE [r EXCEPT !.lo = data])
      EXCEPT !.address_latch = ~r.address_latch ]

\* an increment that never carries into the high byte
AddressRegisterIncrement_NoCarry(r, increment) ==
    AddressRegisterMirror([r EXCEPT !.lo = WrapAdd8(r.lo, increment)])

AddressRegisterIncrement(r, increment) ==
    LET old_val == r.lo
        new_lo == WrapAdd8(old_val, increment)
    IN  AddressRegisterMirror(
            [r EXCEPT !.lo = new_lo,
                      !.hi = IF old_val > new_lo THEN WrapAdd8(r.hi, 1) ELSE r.hi])

(* src/ppu/registers/scroll.rs                                             *)

ScrollRegisterNew == [scroll_x |-> 0, scroll_y |-> 0, address_latch |-> FALSE]

ScrollRegisterWrite(r, data) ==
    LET r1 == IF r.address_latch THEN [r EXCEPT !.scroll_x = data]
                                 ELSE [r EXCEPT !.scroll_y = data]
    IN  [r1 EXCEPT !.address_latch = ~r.address_latch]

ScrollRegisterResetLatch(r) == [r EXCEPT !.address_latch = FALSE]

(* src/ppu/registers/oam.rs                                                *)

OamNew == [addr |-> 0, data |-> EmptyArr]
OamWriteAddr(o, addr) == [o EXCEPT !.addr = addr]
OamReadData(o) == ArrGet(o.data, o.addr)
\* a write_data that leaves the address where it was
OamWriteData_NoIncrement(o, data) ==
    [o EXCEPT !.data = ArrSet(o.data, o.addr, data)]
OamWriteData(o, data) ==
    [o EXCEPT !.data = ArrSet(o.data, o.addr, data), !.addr = WrapAdd8(o.addr, 1)]

(* src/ppu/registers/control.rs, status.rs, mask.rs                        *)

\* from_bits_truncate: all eight bits of the register are named flags
FromBitsTruncate(data) == BitAnd(data, 255)

ControlRegisterNew == FromBitsTruncate(0)
ControlGenerateNmi(control) == FlagContains(control, GENERATE_NMI)
ControlGetVramJumpDist(control) ==
    IF FlagContains(control, VRAM_INCREMENT_MODE) THEN 32 ELSE 1

\* ControlRegister::update(data, in_vblank) as PPU::mem_write calls it: the
\* two-argument version is not among the sources (control.rs holds the
\* one-argument update that only replaces the bits).  Modelled from the
\* specification: the register is replaced, and a request is returned when
\* the write enables generate-NMI while in-vblank is set.
ControlRegisterUpdate(control, data, in_vblank) ==
    LET before == ControlGenerateNmi(control)
        after == FromBitsTruncate(data)
    IN  [ control |-> after,
          nmi |-> IF ~before /\ ControlGenerateNmi(after) /\ in_vblank
                  THEN "Some(true)" ELSE "None" ]

StatusRegisterNew == FromBitsTruncate(0)
StatusSetSpriteZeroHit(status, value) == FlagSet(status, SPRITE_0_HIT, value)
StatusSetVblank(status, value) == FlagSet(status, IN_VBLANK, value)
StatusResetVblank(status) == FlagRemove(status, IN_VBLANK)
StatusIsInVblank(status) == FlagContains(status, IN_VBLANK)

MaskRegisterNew == FromBitsTruncate(0)
MaskRegisterUpdate(data) == FromBitsTruncate(data)

-----------------------------------------------------------------------------
(* src/ppu/mod.rs                                                          *)

\* PPU::new
PPUNew(chr_rom, mirror_mode) ==
    [ chr_rom       |-> chr_rom,
      mirror_mode   |-> mirror_mode,
      palette_table |-> EmptyArr,
      vram          |-> EmptyArr,
      control       |-> ControlRegisterNew,
      addr          |-> AddressRegisterNew,
      scroll        |-> ScrollRegisterNew,
      status        |-> StatusRegisterNew,
      mask          |-> MaskRegisterNew,
      oam           |-> OamNew,
      data_buffer   |-> 0,
      scan_line     |-> 0,
      cycles        |-> 0,
      nmi           |-> "None" ]

\* sizes of the PPU's fixed arrays: vram: [u8; 2048], palette_table: [u8; 32]
PPU_VRAM_SIZE == 2048
PALETTE_TABLE_SIZE == 32

\* the clock: scan lines per frame, PPU cycles per scan line, and the scan
\* line at which vblank begins
SCAN_LINES_PER_FRAME == 262
CLOCK_CYCLES_PER_SCAN_LINE == 341
SCAN_LINE_INTERRUPT == 241

\* PPU::tick, at the end of a scan line: the vblank line, then the end of the frame
TickScanLine(ppu) ==
    Let([ppu EXCEPT !.cycles = ppu.cycles - CLOCK_CYCLES_PER_SCAN_LINE,
                    !.scan_line = ppu.scan_line + 1], LAMBDA p1 :
    Let(IF p1.scan_line = SCAN_LINE_INTERRUPT
        THEN [p1 EXCEPT !.status = StatusSetSpriteZeroHit(StatusSetVblank(p1.status, TRUE), FALSE),
                        !.nmi = IF ControlGenerateNmi(p1.control) THEN "Some(true)" ELSE p1.nmi]
        ELSE p1, LAMBDA p2 :
        IF p2.scan_line >= SCAN_LINES_PER_FRAME
        THEN [ ppu |-> [p2 EXCEPT !.scan_line = 0,
                                  !.nmi = "None",
                                  !.status = StatusResetVblank(StatusSetSpriteZeroHit(p2.status, FALSE))],
               v |-> TRUE ]
        ELSE [ppu |-> p2, v |-> FALSE]))

\* a tick that never reports the end of the frame
PPUTick_NoFrameReport(ppu, cycles) ==
    Let([ppu EXCEPT !.cycles = ppu.cycles + cycles], LAMBDA p0 :
        IF p0.cycles >= CLOCK_CYCLES_PER_SCAN_LINE
        THEN [TickScanLine(p0) EXCEPT !.v = FALSE]
        ELSE [ppu |-> p0, v |-> FALSE])

\* a tick that starts the next scan line at cycle 0
PPUTick_DropsRemainder(ppu, cycles) ==
    Let([ppu EXCEPT !.cycles = ppu.cycles + cycles], LAMBDA p0 :
        IF p0.cycles >= CLOCK_CYCLES_PER_SCAN_LINE
        THEN TickScanLine([p0 EXCEPT !.cycles = CLOCK_CYCLES_PER_SCAN_LINE])
        ELSE [ppu |-> p0, v |-> FALSE])
\* PPU::tick
PPUTick(ppu, cycles) ==
    Let([ppu EXCEPT !.cycles = ppu.cycles + cycles], LAMBDA p0 :
        IF p0.cycles >= CLOCK_CYCLES_PER_SCAN_LINE
        THEN TickScanLine(p0)
        ELSE [ppu |-> p0, v |-> FALSE])

\* a poll that leaves the request in place
PPUPollNmi_Peek(ppu) == [ppu |-> ppu, v |-> ppu.nmi]
\* PPU::poll_nmi: Option::take
PPUPollNmi(ppu) == [ppu |-> [ppu EXCEPT !.nmi = "None"], v |-> ppu.nmi]

\* a mirror_vram with the two foldings exchanged
MirrorVram_Exchanged(ppu, addr) ==
    LET addr_mirror == BitAnd(addr, NAME_TABLE_END_ADDR)
        vram_addr == addr_mirror - NAME_TABLE_START_ADDR
        name_table_index == vram_addr \div NAME_TABLE_SIZE
    IN  IF ppu.mirror_mode = "VERTICAL" /\ name_table_index \in {1, 2}
            THEN vram_addr - NAME_TABLE_SIZE
        ELSE IF \/ (ppu.mirror_mode = "VERTICAL" /\ name_table_index = 3)
                \/ (ppu.mirror_mode = "HORIZONTAL" /\ name_table_index \in {2, 3})
            THEN vram_addr - 2 * NAME_TABLE_SIZE
        ELSE vram_addr
\* PPU::mirror_vram
MirrorVram(ppu, addr) ==
    LET addr_mirror == BitAnd(addr, NAME_TABLE_END_ADDR)
        vram_addr == addr_mirror - NAME_TABLE_START_ADDR
        name_table_index == vram_addr \div NAME_TABLE_SIZE
    IN  IF ppu.mirror_mode = "HORIZONTAL" /\ name_table_index \in {1, 2}
            THEN vram_addr - NAME_TABLE_SIZE
        ELSE IF \/ (ppu.mirror_mode = "HORIZONTAL" /\ name_table_index = 3)
                \/ (ppu.mirror_mode = "VERTICAL" /\ name_table_index \in {2, 3})
            THEN vram_addr - 2 * NAME_TABLE_SIZE
        ELSE vram_addr

\* PPU::increment_vram_ptr
IncrementVramPtr(ppu) ==
    [ppu EXCEPT !.addr = AddressRegisterIncrement(ppu.addr, ControlGetVramJumpDist(ppu.control))]

\* a read_status that clears in-vblank before it takes the bits
ReadStatus_ResetFirst(ppu) ==
    [ ppu   |-> [ppu EXCEPT !.status = StatusResetVblank(ppu.status),
                            !.addr = AddressRegisterResetLatch(ppu.addr),
                            !.scroll = ScrollRegisterResetLatch(ppu.scroll)],
      v     |-> StatusResetVblank(ppu.status),
      panic |-> "none" ]

\* PPU::read_status
ReadStatus(ppu) ==
    [ ppu   |-> [ppu EXCEPT !.status = StatusResetVblank(ppu.status),
                            !.addr = AddressRegisterResetLatch(ppu.addr),
                            !.scroll = ScrollRegisterResetLatch(ppu.scroll)],
      v     |-> ppu.status,
      panic |-> "none" ]

\* the palette cell a pointer in 0x3F00..=0x3FFF selects (both data paths)
PaletteIndex(ppu_addr) ==
    IF ppu_addr \in {16144, 16148, 16152, 16156}
    THEN (ppu_addr - 16) - PALETTE_START_ADDR
    ELSE ppu_addr - PALETTE_START_ADDR

\* PPU::read_ppu_data
ReadPpuData(ppu) ==
    Let(IncrementVramPtr(ppu), LAMBDA p1 :
    Let(AddressRegisterGet(ppu.addr), LAMBDA ppu_addr :
        IF ppu_addr <= CHR_ROM_END_ADDR THEN
            IF ppu_addr < p1.chr_rom.len
            THEN [ ppu   |-> [p1 EXCEPT !.data_buffer = RomGetChr(p1.chr_rom, ppu_addr)],
                   v     |-> ppu.data_buffer,
                   panic |-> "none" ]
            ELSE [ppu |-> p1, v |-> 0, panic |-> "index out of bounds: chr_rom"]
        ELSE IF ppu_addr <= NAME_TABLE_END_ADDR THEN
            Let(MirrorVram(p1, ppu_addr), LAMBDA idx :
                IF idx < PPU_VRAM_SIZE
                THEN [ ppu   |-> [p1 EXCEPT !.data_buffer = ArrGet(p1.vram, idx)],
                       v     |-> ppu.data_buffer,
                       panic |-> "none" ]
                ELSE [ppu |-> p1, v |-> 0, panic |-> "index out of bounds: vram"])
        ELSE IF ppu_addr <= 16127 THEN
            [ppu |-> p1, v |-> 0, panic |-> "ppu_addr space 0x3000 - 0x3eff is not expected to be used"]
        ELSE IF ppu_addr <= BEFORE_MIRROR_RANGE THEN
            LET idx == PaletteIndex(ppu_addr)
            IN  IF idx < PALETTE_TABLE_SIZE
                THEN [ppu |-> p1, v |-> ArrGet(p1.palette_table, idx), panic |-> "none"]
                ELSE [ppu |-> p1, v |-> 0, panic |-> "index out of bounds: palette_table"]
        ELSE [ppu |-> p1, v |-> 0, panic |-> "unexpected access to mirrored space"]))

\* write_ppu_data that stores a write below 0x2000 in the character ROM
WritePpuData_ChrWritable(ppu, data) ==
    Let(IncrementVramPtr(ppu), LAMBDA p1 :
    Let(AddressRegisterGet(ppu.addr), LAMBDA ppu_addr :
        IF ppu_addr <= 8191 THEN
            [ppu |-> [p1 EXCEPT !.chr_rom.patch = ArrSet(p1.chr_rom.patch, ppu_addr, data)],
             panic |-> "none"]
        ELSE IF ppu_addr <= 12287 THEN
            Let(MirrorVram(p1, ppu_addr), LAMBDA idx :
                [ppu |-> [p1 EXCEPT !.vram = ArrSet(p1.vram, idx, data)], panic |-> "none"])
        ELSE [ppu |-> p1, panic |-> "unexpected access"]))

\* PPU::write_ppu_data
WritePpuData(ppu, data) ==
    Let(IncrementVramPtr(ppu), LAMBDA p1 :
    Let(AddressRegisterGet(ppu.addr), LAMBDA ppu_addr :
        IF ppu_addr <= 8191 THEN
            [ppu |-> p1, panic |-> "none"]          \* "Attempt to write to chr rom" is printed
        ELSE IF ppu_addr <= 12287 THEN
            Let(MirrorVram(p1, ppu_addr), LAMBDA idx :
                IF idx < PPU_VRAM_SIZE
                THEN [ppu |-> [p1 EXCEPT !.vram = ArrSet(p1.vram, idx, data)], panic |-> "none"]
                ELSE [ppu |-> p1, panic |-> "index out of bounds: vram"])
        ELSE IF ppu_addr <= 16127 THEN
            [ppu |-> p1, panic |-> "ppu_addr space 0x3000 - 0x3eff is not expected to be used"]
        ELSE IF ppu_addr <= 16383 THEN
            LET idx == PaletteIndex(ppu_addr)
            IN  IF idx < PALETTE_TABLE_SIZE
                THEN [ ppu   |-> [p1 EXCEPT !.palette_table = ArrSet(p1.palette_table, idx, data)],
                       panic |-> "none" ]
                ELSE [ppu |-> p1, panic |-> "index out of bounds: palette_table"]
        ELSE [ppu |-> p1, panic |-> "unexpected access to mirrored space"]))

\* impl Mem for PPU: mem_read
PPUMemRead(ppu, addr) ==
    IF addr \in {8192, 8193, 8195, 8197, 8198, 16404}
        THEN [ppu |-> ppu, v |-> 0, panic |-> "Attempt to read from write-only PPU address"]
    ELSE IF addr = 8194 THEN ReadStatus(ppu)
    ELSE IF addr = 8196 THEN [ppu |-> ppu, v |-> OamReadData(ppu.oam), panic |-> "none"]
    ELSE IF addr = 8199 THEN ReadPpuData(ppu)
    ELSE [ppu |-> ppu, v |-> 0, panic |-> "none"]   \* "PPU read attempt out of range" is printed

\* impl Mem for PPU: mem_write
PPUMemWrite(ppu, addr, data) ==
    IF addr = 8192 THEN
        Let(ControlRegisterUpdate(ppu.control, data, StatusIsInVblank(ppu.status)), LAMBDA u :
            [ppu |-> [ppu EXCEPT !.control = u.control, !.nmi = u.nmi], panic |-> "none"])
    ELSE IF addr = 8193 THEN [ppu |-> [ppu EXCEPT !.mask = MaskRegisterUpdate(data)], panic |-> "none"]
    ELSE IF addr = 8194 THEN [ppu |-> ppu, panic |-> "Attempted to write to PPU status register"]
    ELSE IF addr = 8195 THEN [ppu |-> [ppu EXCEPT !.oam = OamWriteAddr(ppu.oam, data)], panic |-> "none"]
    ELSE IF addr = 8196 THEN [ppu |-> [ppu EXCEPT !.oam = OamWriteData(ppu.oam, data)], panic |-> "none"]
    ELSE IF addr = 8197 THEN [ppu |-> [ppu EXCEPT !.scroll = ScrollRegisterWrite(ppu.scroll, data)], panic |-> "none"]
    ELSE IF addr = 8198 THEN [ppu |-> [ppu EXCEPT !.addr = AddressRegisterWrite(ppu.addr, data)], panic |-> "none"]
    ELSE IF addr = 8199 THEN WritePpuData(ppu, data)
    ELSE IF addr = 16404 THEN [ppu |-> ppu, panic |-> "not yet implemented: oam dma"]
    ELSE [ppu |-> ppu, panic |-> "dafk bro"]

-----------------------------------------------------------------------------
(* src/bus.rs                                                              *)

\* size of the Bus's RAM array: vram: [u8; 2048]
BUS_RAM_SIZE == 2048

\* Bus::new
BusNew(rom) ==
    [ vram    |-> EmptyArr,
      ppu     |-> PPUNew(rom.chr_rom, rom.mirror_mode),
      prg_rom |-> rom.prg_rom ]

\* mirror_addr with a RAM mask one bit too wide, and with a register mask that keeps bit 3
MirrorAddrCPU_WideMask(addr) == BitAnd(addr, 4095)
MirrorAddrPPU_WideMask(addr) == BitAnd(addr, 8207)

\* BusDevice::mirror_addr
MirrorAddrCPU(addr) == BitAnd(addr, 2047)
MirrorAddrPPU(addr) == BitAnd(addr, 8199)

\* prg_read without the reduction for a single bank
PrgIndex_NoBankMirror(b, addr) == addr - ROM_START

\* Bus::prg_read: the index into prg_rom
PrgIndex(b, addr) ==
    LET rom_relative_addr == addr - ROM_START
    IN  IF rom_relative_addr >= 16384 /\ b.prg_rom.len = 16384
        THEN rom_relative_addr % 16384
        ELSE rom_relative_addr

\* Bus::prg_read
PrgRead(b, addr) ==
    Let(PrgIndex(b, addr), LAMBDA idx :
        IF idx < b.prg_rom.len
        THEN [bus |-> b, v |-> RomGetPrg(b.prg_rom, idx), panic |-> "none"]
        ELSE [bus |-> b, v |-> 0, panic |-> "index out of bounds: prg_rom"])

\* impl Mem for Bus: mem_read
BusMemRead(b, addr) ==
    IF addr >= RAM /\ addr <= RAM_MIRRORS_END THEN
        Let(MirrorAddrCPU(addr), LAMBDA idx :
            IF idx < BUS_RAM_SIZE
            THEN [bus |-> b, v |-> ArrGet(b.vram, idx), panic |-> "none"]
            ELSE [bus |-> b, v |-> 0, panic |-> "index out of bounds: vram"])
    ELSE IF addr >= PPU_REGISTERS /\ addr <= PPU_REGISTERS_MIRRORS_END THEN
        Let(PPUMemRead(b.ppu, MirrorAddrPPU(addr)), LAMBDA r :
            [bus |-> [b EXCEPT !.ppu = r.ppu], v |-> r.v, panic |-> r.panic])
    ELSE IF addr >= ROM_START /\ addr <= 65535 THEN PrgRead(b, addr)
    ELSE [bus |-> b, v |-> 0, panic |-> "none"]     \* "Out of range" is printed

\* mem_write whose catch-all arm is fatal
BusMemWrite_StrictRange(b, addr, data) ==
    IF addr >= RAM /\ addr <= RAM_MIRRORS_END THEN
        [bus |-> [b EXCEPT !.vram = ArrSet(b.vram, MirrorAddrCPU(addr), data)], panic |-> "none"]
    ELSE IF addr >= PPU_REGISTERS /\ addr <= PPU_REGISTERS_MIRRORS_END THEN
        Let(PPUMemWrite(b.ppu, MirrorAddrPPU(addr), data), LAMBDA r :
            [bus |-> [b EXCEPT !.ppu = r.ppu], panic |-> r.panic])
    ELSE IF addr >= ROM_START /\ addr <= 65535 THEN
        [bus |-> b, panic |-> "Invalid request to write to ROM PRG"]
    ELSE [bus |-> b, panic |-> "Out of range"]

\* impl Mem for Bus: mem_write
BusMemWrite(b, addr, data) ==
    IF addr >= RAM /\ addr <= RAM_MIRRORS_END THEN
        Let(MirrorAddrCPU(addr), LAMBDA idx :
            IF idx < BUS_RAM_SIZE
            THEN [bus |-> [b EXCEPT !.vram = ArrSet(b.vram, idx, data)], panic |-> "none"]
            ELSE [bus |-> b, panic |-> "index out of bounds: vram"])
    ELSE IF addr >= PPU_REGISTERS /\ addr <= PPU_REGISTERS_MIRRORS_END THEN
        Let(PPUMemWrite(b.ppu, MirrorAddrPPU(addr), data), LAMBDA r :
            [bus |-> [b EXCEPT !.ppu = r.ppu], panic |-> r.panic])
    ELSE IF addr >= ROM_START /\ addr <= 65535 THEN
        [bus |-> b, panic |-> "Invalid request to write to ROM PRG"]
    ELSE [bus |-> b, panic |-> "none"]              \* "Out of range" is printed

-----------------------------------------------------------------------------
(* src/cpu.rs: registers, memory access, stack.                            *)

\* StatusFlags
CARRY == 1
ZERO == 2
INTERRUPT_DISABLE == 4
DECIMAL == 8
BREAK == 16
BREAK2 == 32
OVERFLOW == 64
NEGATIVE == 128

\* CPU::new (the registers; the bus is the variable bus)
CPUNew ==
    [ register_a      |-> 0,
      register_x      |-> 0,
      register_y      |-> 0,
      status          |-> FromBitsTruncate(\h24),
      program_counter |-> 0,
      stack_ptr       |-> STACK_PTR_INIT ]

\* A machine is the CPU with the bus it owns, and the panic (if any) that
\* stopped it.  Once panicked, nothing more is read or written.
Machine(c, b) == [cpu |-> c, bus |-> b, panic |-> "none"]
Panicked(m) == m.panic # "none"
Fail(m, msg) == IF Panicked(m) THEN m ELSE [m EXCEPT !.panic = msg]

\* `a + b` on an unsigned type of the given modulus: panics in a build with
\* overflow checks, wraps in a build without
CheckedAdd(m, a, b, modulus) ==
    [ m |-> IF a + b >= modulus /\ overflow_checks
            THEN Fail(m, "attempt to add with overflow") ELSE m,
      v |-> (a + b) % modulus ]

\* impl Mem for CPU: mem_read
MemRead(m, addr) ==
    IF Panicked(m) THEN [m |-> m, v |-> 0]
    ELSE Let(BusMemRead(m.bus, addr), LAMBDA r :
             [m |-> [m EXCEPT !.bus = r.bus, !.panic = r.panic], v |-> r.v])

\* impl Mem for CPU: mem_write
MemWrite(m, addr, data) ==
    IF Panicked(m) THEN m
    ELSE Let(BusMemWrite(m.bus, addr, data), LAMBDA r :
             [m EXCEPT !.bus = r.bus, !.panic = r.panic])

\* Mem::mem_read_u16
MemReadU16(m, pos) ==
    Let(MemRead(m, pos), LAMBDA lo :
    Let(CheckedAdd(lo.m, pos, 1, 65536), LAMBDA nxt :
    Let(MemRead(nxt.m, nxt.v), LAMBDA hi :
        [m |-> hi.m, v |-> FromLeBytes(lo.v, hi.v)])))

\* Mem::mem_write_u16
MemWriteU16(m, pos, data) ==
    Let(data \div 256, LAMBDA hi :
    Let(BitAnd(data, \hFF), LAMBDA lo :
    Let(MemWrite(m, pos, lo), LAMBDA m1 :
    Let(CheckedAdd(m1, pos, 1, 65536), LAMBDA nxt :
        MemWrite(nxt.m, nxt.v, hi)))))

\* a get_absolute_address whose ZeroPage_X sum leaves page zero
GetAbsoluteAddress_ZeroPageXNoWrap(m, mode, addr) ==
    CASE mode = "Immediate" -> [m |-> m, v |-> addr]
      [] mode = "ZeroPage" -> MemRead(m, addr)
      [] mode = "ZeroPage_X" ->
            Let(MemRead(m, addr), LAMBDA r :
                [m |-> r.m, v |-> r.v + m.cpu.register_x])
      [] mode = "ZeroPage_Y" ->
            Let(MemRead(m, addr), LAMBDA r :
                [m |-> r.m, v |-> WrapAdd8(r.v, m.cpu.register_y)])
      [] mode = "Absolute" -> MemReadU16(m, addr)
      [] mode = "Absolute_X" ->
            Let(MemReadU16(m, addr), LAMBDA r :
                [m |-> r.m, v |-> WrapAdd16(r.v, m.cpu.register_x)])
      [] mode = "Absolute_Y" ->
            Let(MemReadU16(m, addr), LAMBDA r :
                [m |-> r.m, v |-> WrapAdd16(r.v, m.cpu.register_y)])
      [] mode = "Indirect" ->
            Let(MemReadU16(m, addr), LAMBDA r :
            Let(MemRead(r.m, r.v), LAMBDA lo :
            Let(MemRead(lo.m, IF BitAnd(r.v, \h00FF) = \h00FF
                              THEN BitAnd(r.v, \hFF00)
                              ELSE WrapAdd16(r.v, 1)), LAMBDA hi :
                [m |-> hi.m, v |-> FromLeBytes(lo.v, hi.v)])))
      [] mode = "Indirect_X" ->
            Let(MemRead(m, addr), LAMBDA r :
            Let(WrapAdd8(r.v, m.cpu.register_x), LAMBDA x_addr :
            Let(MemRead(r.m, x_addr), LAMBDA lo :
            Let(MemRead(lo.m, WrapAdd8(x_addr, 1)), LAMBDA hi :
                [m |-> hi.m, v |-> FromLeBytes(lo.v, hi.v)]))))
      [] mode = "Indirect_Y" ->
            Let(MemRead(m, addr), LAMBDA r :
            Let(MemRead(r.m, r.v), LAMBDA lo :
            Let(MemRead(lo.m, WrapAdd8(r.v, 1)), LAMBDA hi :
                [m |-> hi.m, v |-> WrapAdd16(FromLeBytes(lo.v, hi.v), m.cpu.register_y)])))
      [] mode = "Implied" ->
            [m |-> Fail(m, "Go to sleep. Why you tryna find a new address bruv."), v |-> 0]
\* a get_absolute_address whose Indirect_Y fetches the high byte at z + 1, unwrapped
GetAbsoluteAddress_IndirectYHighNextPage(m, mode, addr) ==
    CASE mode = "Immediate" -> [m |-> m, v |-> addr]
      [] mode = "ZeroPage" -> MemRead(m, addr)
      [] mode = "ZeroPage_X" ->
            Let(MemRead(m, addr), LAMBDA r :
                [m |-> r.m, v |-> WrapAdd8(r.v, m.cpu.register_x)])
      [] mode = "ZeroPage_Y" ->
            Let(MemRead(m, addr), LAMBDA r :
                [m |-> r.m, v |-> WrapAdd8(r.v, m.cpu.register_y)])
      [] mode = "Absolute" -> MemReadU16(m, addr)
      [] mode = "Absolute_X" ->
            Let(MemReadU16(m, addr), LAMBDA r :
                [m |-> r.m, v |-> WrapAdd16(r.v, m.cpu.register_x)])
      [] mode = "Absolute_Y" ->
            Let(MemReadU16(m, addr), LAMBDA r :
                [m |-> r.m, v |-> WrapAdd16(r.v, m.cpu.register_y)])
      [] mode = "Indirect" ->
            Let(MemReadU16(m, addr), LAMBDA r :
            Let(MemRead(r.m, r.v), LAMBDA lo :
            Let(MemRead(lo.m, IF BitAnd(r.v, \h00FF) = \h00FF
                              THEN BitAnd(r.v, \hFF00)
                              ELSE WrapAdd16(r.v, 1)), LAMBDA hi :
                [m |-> hi.m, v |-> FromLeBytes(lo.v, hi.v)])))
      [] mode = "Indirect_X" ->
            Let(MemRead(m, addr), LAMBDA r :
            Let(WrapAdd8(r.v, m.cpu.register_x), LAMBDA x_addr :
            Let(MemRead(r.m, x_addr), LAMBDA lo :
            Let(MemRead(lo.m, WrapAdd8(x_addr, 1)), LAMBDA hi :
                [m |-> hi.m, v |-> FromLeBytes(lo.v, hi.v)]))))
      [] mode = "Indirect_Y" ->
            Let(MemRead(m, addr), LAMBDA r :
            Let(MemRead(r.m, r.v), LAMBDA lo :
            Let(MemRead(lo.m, r.v + 1), LAMBDA hi :
                [m |-> hi.m, v |-> WrapAdd16(FromLeBytes(lo.v, hi.v), m.cpu.register_y)])))
      [] mode = "Implied" ->
            [m |-> Fail(m, "Go to sleep. Why you tryna find a new address bruv."), v |-> 0]
\* CPU::get_absolute_address
GetAbsoluteAddress(m, mode, addr) ==
    CASE mode = "Immediate" -> [m |-> m, v |-> addr]
      [] mode = "ZeroPage" -> MemRead(m, addr)
      [] mode = "ZeroPage_X" ->
            Let(MemRead(m, addr), LAMBDA r :
                [m |-> r.m, v |-> WrapAdd8(r.v, m.cpu.register_x)])
      [] mode = "ZeroPage_Y" ->
            Let(MemRead(m, addr), LAMBDA r :
                [m |-> r.m, v |-> WrapAdd8(r.v, m.cpu.register_y)])
      [] mode = "Absolute" -> MemReadU16(m, addr)
      [] mode = "Absolute_X" ->
            Let(MemReadU16(m, addr), LAMBDA r :
                [m |-> r.m, v |-> WrapAdd16(r.v, m.cpu.register_x)])
      [] mode = "Absolute_Y" ->
            Let(MemReadU16(m, addr), LAMBDA r :
                [m |-> r.m, v |-> WrapAdd16(r.v, m.cpu.register_y)])
      [] mode = "Indirect" ->
            Let(MemReadU16(m, addr), LAMBDA r :
            Let(MemRead(r.m, r.v), LAMBDA lo :
            Let(MemRead(lo.m, IF BitAnd(r.v, \h00FF) = \h00FF
                              THEN BitAnd(r.v, \hFF00)
                              ELSE WrapAdd16(r.v, 1)), LAMBDA hi :
                [m |-> hi.m, v |-> FromLeBytes(lo.v, hi.v)])))
      [] mode = "Indirect_X" ->
            Let(MemRead(m, addr), LAMBDA r :
            Let(WrapAdd8(r.v, m.cpu.register_x), LAMBDA x_addr :
            Let(MemRead(r.m, x_addr), LAMBDA lo :
            Let(MemRead(lo.m, WrapAdd8(x_addr, 1)), LAMBDA hi :
                [m |-> hi.m, v |-> FromLeBytes(lo.v, hi.v)]))))
      [] mode = "Indirect_Y" ->
            Let(MemRead(m, addr), LAMBDA r :
            Let(MemRead(r.m, r.v), LAMBDA lo :
            Let(MemRead(lo.m, WrapAdd8(r.v, 1)), LAMBDA hi :
                [m |-> hi.m, v |-> WrapAdd16(FromLeBytes(lo.v, hi.v), m.cpu.register_y)])))
      [] mode = "Implied" ->
            [m |-> Fail(m, "Go to sleep. Why you tryna find a new address bruv."), v |-> 0]

\* CPU::get_operand_address
GetOperandAddress(m, mode) == GetAbsoluteAddress(m, mode, m.cpu.program_counter)

\* the recurring pair: get_operand_address(mode), then mem_read(addr)
Operand(m, mode) ==
    Let(GetOperandAddress(m, mode), LAMBDA a :
    Let(MemRead(a.m, a.v), LAMBDA r :
        [m |-> r.m, addr |-> a.v, v |-> r.v]))

\* CPU::push
Push(m, data) ==
    Let(MemWrite(m, STACK_ADDR + m.cpu.stack_ptr, data), LAMBDA m1 :
        [m1 EXCEPT !.cpu.stack_ptr = WrapSub8(m.cpu.stack_ptr, 1)])

\* pop that reads the cell under the pointer before it moves the pointer
Pop_ReadThenIncrement(m) ==
    Let(MemRead(m, STACK_ADDR + m.cpu.stack_ptr), LAMBDA r :
        [r EXCEPT !.m.cpu.stack_ptr = WrapAdd8(m.cpu.stack_ptr, 1)])

\* CPU::pop
Pop(m) ==
    Let(WrapAdd8(m.cpu.stack_ptr, 1), LAMBDA sp :
    Let([m EXCEPT !.cpu.stack_ptr = sp], LAMBDA m1 :
        MemRead(m1, STACK_ADDR + sp)))

\* CPU::push_u16
\* a push_u16 that pushes the low byte first
PushU16_LowFirst(m, data) == Push(Push(m, BitAnd(data, \hFF)), data \div 256)
PushU16(m, data) == Push(Push(m, data \div 256), BitAnd(data, \hFF))

\* CPU::pop_u16
PopU16(m) ==
    Let(Pop(m), LAMBDA lo :
    Let(Pop(lo.m), LAMBDA hi :
        [m |-> hi.m, v |-> FromLeBytes(lo.v, hi.v)]))

\* update_zero_and_negative_flags that sets the two flags and never clears them
UpdateZeroAndNegativeFlags_InsertOnly(m, value) ==
    [m EXCEPT !.cpu.status =
        BitOr(BitOr(m.cpu.status, IF value = 0 THEN ZERO ELSE 0),
              IF BitAnd(value, \h80) > 0 THEN NEGATIVE ELSE 0)]

\* CPU::update_zero_and_negative_flags
UpdateZeroAndNegativeFlags(m, value) ==
    [m EXCEPT !.cpu.status =
        FlagSet(FlagSet(m.cpu.status, ZERO, value = 0), NEGATIVE, BitAnd(value, \h80) > 0)]

CarryIn(m) == IF FlagContains(m.cpu.status, CARRY) THEN 1 ELSE 0
SetFlag(m, flag, value) == [m EXCEPT !.cpu.status = FlagSet(m.cpu.status, flag, value)]

\* CPU::set_accumulator and CPU::set_register_a
SetAccumulator(m, value) ==
    UpdateZeroAndNegativeFlags([m EXCEPT !.cpu.register_a = value], value)
SetRegisterA(m, value) ==
    UpdateZeroAndNegativeFlags([m EXCEPT !.cpu.register_a = value], value)
SetRegisterX(m, value) ==
    UpdateZeroAndNegativeFlags([m EXCEPT !.cpu.register_x = value], value)
SetRegisterY(m, value) ==
    UpdateZeroAndNegativeFlags([m EXCEPT !.cpu.register_y = value], value)

-----------------------------------------------------------------------------
(* src/cpu.rs: instruction handlers.  A handler maps a machine to a        *)
(* machine; the read-modify-write handlers also return the byte written.   *)

\* i8 arithmetic: `x as i8`, i8::wrapping_neg, i8::wrapping_sub, `x as u8`
AsI8(b) == IF b >= 128 THEN b - 256 ELSE b
WrapI8(x) == ((x + 128 + 256) % 256) - 128
WrappingNegI8(x) == WrapI8(0 - x)
WrappingSubI8(x, y) == WrapI8(x - y)
AsU8(x) == (x + 256) % 256

\* the operand negated only: (data as i8).wrapping_neg() as u8
SbcOperand_NegateOnly(data) == AsU8(WrappingNegI8(AsI8(data)))

\* the operand SBC hands to the adder: (data as i8).wrapping_neg().wrapping_sub(1) as u8
SbcOperand(data) == AsU8(WrappingSubI8(WrappingNegI8(AsI8(data)), 1))

\* add_to_accumulator with the overflow test taken on the two inputs only
AddToAccumulator_InputSigns(m, value) ==
    Let(m.cpu.register_a + value + CarryIn(m), LAMBDA sum :
    Let(sum % 256, LAMBDA sum8 :
    Let(SetFlag(m, CARRY, sum > \hFF), LAMBDA m1 :
    Let(SetFlag(m1, OVERFLOW,
                  BitAnd(BitXor(value, m.cpu.register_a), \h80) = 0), LAMBDA m2 :
        UpdateZeroAndNegativeFlags([m2 EXCEPT !.cpu.register_a = sum8], sum8)))))

\* CPU::add_to_accumulator
AddToAccumulator(m, value) ==
    Let(m.cpu.register_a + value + CarryIn(m), LAMBDA sum :
    Let(sum % 256, LAMBDA sum8 :
    Let(SetFlag(m, CARRY, sum > \hFF), LAMBDA m1 :
    Let(SetFlag(m1, OVERFLOW,
                  BitAnd(BitAnd(BitXor(value, sum8), BitXor(m.cpu.register_a, sum8)), \h80) # 0), LAMBDA m2 :
        UpdateZeroAndNegativeFlags([m2 EXCEPT !.cpu.register_a = sum8], sum8)))))

\* CPU::add_to_register_a
AddToRegisterA(m, data) ==
    Let(m.cpu.register_a + data + CarryIn(m), LAMBDA sum :
    Let(sum > \hFF, LAMBDA carry :
    Let(IF carry THEN SetFlag(m, CARRY, TRUE) ELSE SetFlag(m, CARRY, FALSE), LAMBDA m1 :
    Let(sum % 256, LAMBDA result :
    Let(IF BitAnd(BitAnd(BitXor(data, result), BitXor(result, m.cpu.register_a)), \h80) # 0
              THEN SetFlag(m1, OVERFLOW, TRUE)
              ELSE SetFlag(m1, OVERFLOW, FALSE), LAMBDA m2 :
        SetRegisterA(m2, result))))))

\* CPU::sub_from_register_a
SubFromRegisterA(m, data) == AddToRegisterA(m, SbcOperand(data))

\* CPU::and_with_register_a, xor_with_register_a, or_with_register_a
AndWithRegisterA(m, data) == SetRegisterA(m, BitAnd(data, m.cpu.register_a))
XorWithRegisterA(m, data) == SetRegisterA(m, BitXor(data, m.cpu.register_a))
OrWithRegisterA(m, data) == SetRegisterA(m, BitOr(data, m.cpu.register_a))

\* CPU::adc, CPU::sbc
Adc(m, mode) ==
    Let(Operand(m, mode), LAMBDA o :
        AddToAccumulator(o.m, o.v))
\* sbc that clears the carry before it adds the complemented operand
Sbc_BorrowAlways(m, mode) ==
    Let(Operand(m, mode), LAMBDA o :
        AddToAccumulator(SetFlag(o.m, CARRY, FALSE), SbcOperand(o.v)))
Sbc(m, mode) ==
    Let(Operand(m, mode), LAMBDA o :
        AddToAccumulator(o.m, SbcOperand(o.v)))

\* CPU::and, CPU::eor, CPU::ora
And(m, mode) ==
    Let(Operand(m, mode), LAMBDA o :
    Let(BitAnd(o.m.cpu.register_a, o.v), LAMBDA a :
        UpdateZeroAndNegativeFlags([o.m EXCEPT !.cpu.register_a = a], a)))
Eor(m, mode) ==
    Let(Operand(m, mode), LAMBDA o :
    Let(BitXor(o.m.cpu.register_a, o.v), LAMBDA a :
        UpdateZeroAndNegativeFlags([o.m EXCEPT !.cpu.register_a = a], a)))
Ora(m, mode) ==
    Let(Operand(m, mode), LAMBDA o :
        SetRegisterA(o.m, BitOr(o.m.cpu.register_a, o.v)))

\* CPU::asl_accumulator, CPU::asl
AslAccumulator(m) ==
    Let(m.cpu.register_a, LAMBDA data :
    Let(SetFlag(m, CARRY, data \div 128 = 1), LAMBDA m1 :
        SetAccumulator(m1, Shl8(data))))
Asl(m, mode) ==
    Let(Operand(m, mode), LAMBDA o :
    Let(SetFlag(o.m, CARRY, o.v \div 128 = 1), LAMBDA m1 :
    Let(Shl8(o.v), LAMBDA result :
    Let(MemWrite(m1, o.addr, result), LAMBDA m2 :
        [m |-> UpdateZeroAndNegativeFlags(m2, result), v |-> result]))))

\* CPU::lsr_accumulator, CPU::lsr
LsrAccumulator(m) ==
    Let(m.cpu.register_a, LAMBDA data :
    Let(SetFlag(m, CARRY, BitAnd(data, 1) = 1), LAMBDA m1 :
        UpdateZeroAndNegativeFlags([m1 EXCEPT !.cpu.register_a = Shr8(data)], Shr8(data))))
Lsr(m, mode) ==
    Let(Operand(m, mode), LAMBDA o :
    Let(SetFlag(o.m, CARRY, BitAnd(o.v, 1) = 1), LAMBDA m1 :
    Let(Shr8(o.v), LAMBDA data :
    Let(MemWrite(m1, o.addr, data), LAMBDA m2 :
        [m |-> UpdateZeroAndNegativeFlags(m2, data), v |-> data]))))

\* CPU::rol_accumulator, CPU::rol
\* a rol_accumulator that shifts a zero in
RolAccumulator_NoCarryIn(m) ==
    Let(m.cpu.register_a \div 128, LAMBDA new_carry :
    Let(Shl8(m.cpu.register_a), LAMBDA a :
    Let(SetFlag([m EXCEPT !.cpu.register_a = a], CARRY, new_carry = 1), LAMBDA m1 :
        UpdateZeroAndNegativeFlags(m1, a))))
RolAccumulator(m) ==
    Let(m.cpu.register_a \div 128, LAMBDA new_carry :
    Let(BitOr(Shl8(m.cpu.register_a), CarryIn(m)), LAMBDA a :
    Let(SetFlag([m EXCEPT !.cpu.register_a = a], CARRY, new_carry = 1), LAMBDA m1 :
        UpdateZeroAndNegativeFlags(m1, a))))
Rol(m, mode) ==
    Let(Operand(m, mode), LAMBDA o :
    Let(o.v \div 128, LAMBDA new_carry :
    Let(BitOr(Shl8(o.v), CarryIn(o.m)), LAMBDA data :
    Let(SetFlag(o.m, CARRY, new_carry = 1), LAMBDA m1 :
    Let(MemWrite(m1, o.addr, data), LAMBDA m2 :
        [m |-> UpdateZeroAndNegativeFlags(m2, data), v |-> data])))))

\* CPU::ror_accumulator, CPU::ror
RorAccumulator(m) ==
    Let(BitAnd(m.cpu.register_a, 1) = 1, LAMBDA new_carry :
    Let(BitOr(Shr8(m.cpu.register_a), IF CarryIn(m) = 1 THEN \h80 ELSE 0), LAMBDA a :
    Let(SetFlag([m EXCEPT !.cpu.register_a = a], CARRY, new_carry), LAMBDA m1 :
        UpdateZeroAndNegativeFlags(m1, a))))
Ror(m, mode) ==
    Let(Operand(m, mode), LAMBDA o :
    Let(BitAnd(o.v, 1) = 1, LAMBDA new_carry :
    Let(BitOr(Shr8(o.v), IF CarryIn(o.m) = 1 THEN \h80 ELSE 0), LAMBDA data :
    Let(SetFlag(o.m, CARRY, new_carry), LAMBDA m1 :
    Let(MemWrite(m1, o.addr, data), LAMBDA m2 :
        [m |-> UpdateZeroAndNegativeFlags(m2, data), v |-> data])))))

\* `x as i8 as u16`: the sign-extended displacement
SignExtend(b) == IF b >= 128 THEN b + \hFF00 ELSE b

\* CPU::branch
Branch(m, condition_to_jump) ==
    IF ~condition_to_jump THEN m
    ELSE Let(MemRead(m, m.cpu.program_counter), LAMBDA r :
         Let(WrapAdd16(WrapAdd16(m.cpu.program_counter, 1), SignExtend(r.v)), LAMBDA destination :
             [r.m EXCEPT !.cpu.program_counter = destination]))

\* CPU::bit
Bit(m, mode) ==
    Let(Operand(m, mode), LAMBDA o :
    Let(BitAnd(o.m.cpu.register_a, o.v), LAMBDA result :
    Let(SetFlag(o.m, ZERO, result = 0), LAMBDA m1 :
    Let(SetFlag(m1, NEGATIVE, BitAnd(o.v, \h80) > 0), LAMBDA m2 :
        SetFlag(m2, OVERFLOW, BitAnd(o.v, \h40) > 0)))))

\* CPU::compare
Compare(m, compare_value, mode) ==
    Let(Operand(m, mode), LAMBDA o :
    Let(SetFlag(o.m, CARRY, compare_value >= o.v), LAMBDA m1 :
        UpdateZeroAndNegativeFlags(m1, WrapSub8(compare_value, o.v))))

\* CPU::dec, CPU::inc
Dec(m, mode) ==
    Let(Operand(m, mode), LAMBDA o :
    Let(WrapSub8(o.v, 1), LAMBDA data :
        UpdateZeroAndNegativeFlags(MemWrite(o.m, o.addr, data), data)))
Inc(m, mode) ==
    Let(Operand(m, mode), LAMBDA o :
    Let(WrapAdd8(o.v, 1), LAMBDA data :
        [m |-> UpdateZeroAndNegativeFlags(MemWrite(o.m, o.addr, data), data), v |-> data]))

\* CPU::dex, dey, inx, iny
Dex(m) == SetRegisterX(m, WrapSub8(m.cpu.register_x, 1))
Dey(m) == SetRegisterY(m, WrapSub8(m.cpu.register_y, 1))
\* an inx that stops at 0xFF
Inx_Saturating(m) ==
    SetRegisterX(m, IF m.cpu.register_x = 255 THEN 255 ELSE m.cpu.register_x + 1)
Inx(m) == SetRegisterX(m, WrapAdd8(m.cpu.register_x, 1))
Iny(m) == SetRegisterY(m, WrapAdd8(m.cpu.register_y, 1))

\* CPU::jsr
Jsr(m) ==
    Let(CheckedAdd(m, m.cpu.program_counter, 1, 65536), LAMBDA ret :
    Let(PushU16(ret.m, ret.v), LAMBDA m1 :
    Let(MemReadU16(m1, m1.cpu.program_counter), LAMBDA addr :
        [addr.m EXCEPT !.cpu.program_counter = addr.v])))

\* CPU::lda, ldx, ldy
Lda(m, mode) ==
    Let(Operand(m, mode), LAMBDA o :
        SetRegisterA(o.m, o.v))
Ldx(m, mode) ==
    Let(Operand(m, mode), LAMBDA o :
        SetRegisterX(o.m, o.v))
Ldy(m, mode) ==
    Let(Operand(m, mode), LAMBDA o :
        SetRegisterY(o.m, o.v))

\* CPU::pha, php, pla, plp
Pha(m) == Push(m, m.cpu.register_a)
\* a php that pushes the status as it is
Php_Live(m) == Push(m, m.cpu.status)
Php(m) == Push(m, FlagInsert(FlagInsert(m.cpu.status, BREAK), BREAK2))
Pla(m) ==
    Let(Pop(m), LAMBDA r :
        SetRegisterA(r.m, r.v))
\* a plp that takes the byte as it is
Plp_Raw(m) ==
    Let(Pop(m), LAMBDA r :
        [r.m EXCEPT !.cpu.status = FromBitsTruncate(r.v)])
Plp(m) ==
    Let(Pop(m), LAMBDA r :
        [r.m EXCEPT !.cpu.status = FlagInsert(FlagRemove(FromBitsTruncate(r.v), BREAK), BREAK2)])

\* CPU::rti, rts
Rti(m) ==
    Let(Plp(m), LAMBDA m1 :
    Let(PopU16(m1), LAMBDA r :
        [r.m EXCEPT !.cpu.program_counter = r.v]))
Rts(m) ==
    Let(PopU16(m), LAMBDA r :
        [r.m EXCEPT !.cpu.program_counter = WrapAdd16(r.v, 1)])

\* CPU::sta, stx, sty
Sta(m, mode) ==
    Let(GetOperandAddress(m, mode), LAMBDA a :
        MemWrite(a.m, a.v, m.cpu.register_a))
Stx(m, mode) ==
    Let(GetOperandAddress(m, mode), LAMBDA a :
        MemWrite(a.m, a.v, m.cpu.register_x))
Sty(m, mode) ==
    Let(GetOperandAddress(m, mode), LAMBDA a :
        MemWrite(a.m, a.v, m.cpu.register_y))

\* CPU::tax, tay, tsx, txa, tya, txs
Tax(m) == SetRegisterX(m, m.cpu.register_a)
Tay(m) == SetRegisterY(m, m.cpu.register_a)
Tsx(m) == SetRegisterX(m, m.cpu.stack_ptr)
Txa(m) == SetRegisterA(m, m.cpu.register_x)
Tya(m) == SetRegisterA(m, m.cpu.register_y)
Txs(m) == [m EXCEPT !.cpu.stack_ptr = m.cpu.register_x]

-----------------------------------------------------------------------------
(* src/opcodes.rs: OP_CODES_MAP, one descriptor for each of the 256 codes. *)
(* get_opcode_details(code) is the record of the three lookups below.      *)

\* a table whose descriptors all have the Implied mode
OpCodeMode_Implied(code) == "Implied"
OpCodeMode(code) ==
    CASE code \in
            {\h0C, \h0D, \h0E, \h0F, \h2C, \h2D, \h2E, \h2F, \h4D, \h4E, \h4F, \h6D,
             \h6E, \h6F, \h8C, \h8D, \h8E, \h8F, \hAC, \hAD, \hAE, \hAF, \hCC, \hCD,
             \hCE, \hCF, \hEC, \hED, \hEE, \hEF} -> "Absolute"
      [] code \in
            {\h1C, \h1D, \h1E, \h1F, \h3C, \h3D, \h3E, \h3F, \h5C, \h5D, \h5E, \h5F,
             \h7C, \h7D, \h7E, \h7F, \h9C, \h9D, \hBC, \hBD, \hDC, \hDD, \hDE, \hDF,
             \hFC, \hFD, \hFE, \hFF} -> "Absolute_X"
      [] code \in
            {\h19, \h1B, \h39, \h3B, \h59, \h5B, \h79, \h7B, \h99, \h9B, \h9E, \h9F,
             \hB9, \hBB, \hBE, \hBF, \hD9, \hDB, \hF9, \hFB} -> "Absolute_Y"
      [] code \in
            {\h09, \h0B, \h29, \h2B, \h49, \h4B, \h69, \h6B, \h80, \h82, \h89, \h8B,
             \hA0, \hA2, \hA9, \hAB, \hC0, \hC2, \hC9, \hCB, \hE0, \hE2, \hE9, \hEB} -> "Immediate"
      [] code \in
            {\h00, \h02, \h08, \h0A, \h10, \h12, \h18, \h1A, \h20, \h22, \h28, \h2A,
             \h30, \h32, \h38, \h3A, \h40, \h42, \h48, \h4A, \h4C, \h50, \h52, \h58,
             \h5A, \h60, \h62, \h68, \h6A, \h6C, \h70, \h72, \h78, \h7A, \h88, \h8A,
             \h90, \h92, \h98, \h9A, \hA8, \hAA, \hB0, \hB2, \hB8, \hBA, \hC8, \hCA,
             \hD0, \hD2, \hD8, \hDA, \hE8, \hEA, \hF0, \hF2, \hF8, \hFA} -> "Implied"
      [] code \in
            {\h01, \h03, \h21, \h23, \h41, \h43, \h61, \h63, \h81, \h83, \hA1, \hA3,
             \hC1, \hC3, \hE1, \hE3} -> "Indirect_X"
      [] code \in
            {\h11, \h13, \h31, \h33, \h51, \h53, \h71, \h73, \h91, \h93, \hB1, \hB3,
             \hD1, \hD3, \hF1, \hF3} -> "Indirect_Y"
      [] code \in
            {\h04, \h05, \h06, \h07, \h24, \h25, \h26, \h27, \h44, \h45, \h46, \h47,
             \h64, \h65, \h66, \h67, \h84, \h85, \h86, \h87, \hA4, \hA5, \hA6, \hA7,
             \hC4, \hC5, \hC6, \hC7, \hE4, \hE5, \hE6, \hE7} -> "ZeroPage"
      [] code \in
            {\h14, \h15, \h16, \h17, \h34, \h35, \h36, \h37, \h54, \h55, \h56, \h57,
             \h74, \h75, \h76, \h77, \h94, \h95, \hB4, \hB5, \hD4, \hD5, \hD6, \hD7,
             \hF4, \hF5, \hF6, \hF7} -> "ZeroPage_X"
      [] code \in
            {\h96, \h97, \hB6, \hB7} -> "ZeroPage_Y"

OpCodeAdditionalBytes(code) ==
    CASE code \in
            {\h00, \h02, \h08, \h0A, \h12, \h18, \h1A, \h22, \h28, \h2A, \h32, \h38,
             \h3A, \h40, \h42, \h48, \h4A, \h52, \h58, \h5A, \h60, \h62, \h68, \h6A,
             \h72, \h78, \h7A, \h88, \h8A, \h92, \h98, \h9A, \hA8, \hAA, \hB2, \hB8,
             \hBA, \hC8, \hCA, \hD2, \hD8, \hDA, \hE8, \hEA, \hF2, \hF8, \hFA} -> 0
      [] code \in
            {\h01, \h03, \h04, \h05, \h06, \h07, \h09, \h0B, \h10, \h11, \h13, \h14,
             \h15, \h16, \h17, \h21, \h23, \h24, \h25, \h26, \h27, \h29, \h2B, \h30,
             \h31, \h33, \h34, \h35, \h36, \h37, \h41, \h43, \h44, \h45, \h46, \h47,
             \h49, \h4B, \h50, \h51, \h53, \h54, \h55, \h56, \h57, \h61, \h63, \h64,
             \h65, \h66, \h67, \h69, \h6B, \h70, \h71, \h73, \h74, \h75, \h76, \h77,
             \h80, \h81, \h82, \h83, \h84, \h85, \h86, \h87, \h89, \h8B, \h90, \h91,
             \h93, \h94, \h95, \h96, \h97, \hA0, \hA1, \hA2, \hA3, \hA4, \hA5, \hA6,
             \hA7, \hA9, \hAB, \hB0, \hB1, \hB3, \hB4, \hB5, \hB6, \hB7, \hC0, \hC1,
             \hC2, \hC3, \hC4, \hC5, \hC6, \hC7, \hC9, \hCB, \hD0, \hD1, \hD3, \hD4,
             \hD5, \hD6, \hD7, \hE0, \hE1, \hE2, \hE3, \hE4, \hE5, \hE6, \hE7, \hE9,
             \hEB, \hF0, \hF1, \hF3, \hF4, \hF5, \hF6, \hF7} -> 1
      [] code \in
            {\h0C, \h0D, \h0E, \h0F, \h19, \h1B, \h1C, \h1D, \h1E, \h1F, \h20, \h2C,
             \h2D, \h2E, \h2F, \h39, \h3B, \h3C, \h3D, \h3E, \h3F, \h4C, \h4D, \h4E,
             \h4F, \h59, \h5B, \h5C, \h5D, \h5E, \h5F, \h6C, \h6D, \h6E, \h6F, \h79,
             \h7B, \h7C, \h7D, \h7E, \h7F, \h8C, \h8D, \h8E, \h8F, \h99, \h9B, \h9C,
             \h9D, \h9E, \h9F, \hAC, \hAD, \hAE, \hAF, \hB9, \hBB, \hBC, \hBD, \hBE,
             \hBF, \hCC, \hCD, \hCE, \hCF, \hD9, \hDB, \hDC, \hDD, \hDE, \hDF, \hEC,
             \hED, \hEE, \hEF, \hF9, \hFB, \hFC, \hFD, \hFE, \hFF} -> 2

OpCodeCycles(code) ==
    CASE code \in
            {\h02, \h09, \h0A, \h0B, \h10, \h12, \h18, \h1A, \h22, \h29, \h2A, \h2B,
             \h30, \h32, \h38, \h3A, \h42, \h49, \h4A, \h4B, \h50, \h52, \h58, \h5A,
             \h62, \h69, \h6A, \h6B, \h70, \h72, \h78, \h7A, \h80, \h82, \h88, \h89,
             \h8A, \h90, \h92, \h98, \h9A, \h9B, \hA0, \hA2, \hA8, \hA9, \hAA, \hB0,
             \hB2, \hB8, \hBA, \hBB, \hC0, \hC2, \hC8, \hC9, \hCA, \hCB, \hD0, \hD2,
             \hD8, \hDA, \hE0, \hE2, \hE8, \hE9, \hEA, \hEB, \hF0, \hF2, \hF8, \hFA} -> 2
      [] code \in
            {\h04, \h05, \h08, \h24, \h25, \h44, \h45, \h48, \h4C, \h64, \h65, \h84,
             \h85, \h86, \h87, \h8B, \hA4, \hA5, \hA6, \hA7, \hAB, \hC4, \hC5, \hE4, \hE5} -> 3
      [] code \in
            {\h0C, \h0D, \h14, \h15, \h19, \h1C, \h1D, \h28, \h2C, \h2D, \h34, \h35,
             \h39, \h3C, \h3D, \h4D, \h54, \h55, \h59, \h5C, \h5D, \h68, \h6D, \h74,
             \h75, \h79, \h7C, \h7D, \h8C, \h8D, \h8E, \h8F, \h94, \h95, \h96, \h97,
             \h9C, \h9E, \h9F, \hAC, \hAD, \hAE, \hAF, \hB4, \hB5, \hB6, \hB7, \hB9,
             \hBC, \hBD, \hBE, \hBF, \hCC, \hCD, \hD4, \hD5, \hD9, \hDC, \hDD, \hEC,
             \hED, \hF4, \hF5, \hF9, \hFC, \hFD} -> 4
      [] code \in
            {\h06, \h07, \h11, \h26, \h27, \h31, \h46, \h47, \h51, \h66, \h67, \h6C,
             \h71, \h99, \h9D, \hB1, \hB3, \hC6, \hC7, \hD1, \hE6, \hE7, \hF1} -> 5
      [] code \in
            {\h01, \h0E, \h0F, \h16, \h17, \h20, \h21, \h2E, \h2F, \h36, \h37, \h40,
             \h41, \h4E, \h4F, \h56, \h57, \h60, \h61, \h6E, \h6F, \h76, \h77, \h81,
             \h83, \h91, \hA1, \hA3, \hC1, \hCE, \hCF, \hD6, \hD7, \hE1, \hEE, \hEF,
             \hF6, \hF7} -> 6
      [] code \in
            {\h00, \h1B, \h1E, \h1F, \h3B, \h3E, \h3F, \h5B, \h5E, \h5F, \h7B, \h7E,
             \h7F, \hDB, \hDE, \hDF, \hFB, \hFE, \hFF} -> 7
      [] code \in
            {\h03, \h13, \h23, \h33, \h43, \h53, \h63, \h73, \h93, \hC3, \hD3, \hE3, \hF3} -> 8

-----------------------------------------------------------------------------
(* src/cpu.rs: the undocumented opcodes the dispatcher implements inline.  *)

\* DCP
Dcp(m, mode) ==
    Let(Operand(m, mode), LAMBDA o :
    Let(WrapSub8(o.v, 1), LAMBDA data :
    Let(MemWrite(o.m, o.addr, data), LAMBDA m1 :
    Let(IF data <= m1.cpu.register_a THEN SetFlag(m1, CARRY, TRUE) ELSE m1, LAMBDA m2 :
        UpdateZeroAndNegativeFlags(m2, WrapSub8(m2.cpu.register_a, data))))))

\* AXS
Axs(m, mode) ==
    Let(Operand(m, mode), LAMBDA o :
    Let(BitAnd(o.m.cpu.register_x, o.m.cpu.register_a), LAMBDA x_and_a :
    Let(WrapSub8(x_and_a, o.v), LAMBDA result :
    Let(IF o.v <= x_and_a THEN SetFlag(o.m, CARRY, TRUE) ELSE o.m, LAMBDA m1 :
    Let(UpdateZeroAndNegativeFlags(m1, result), LAMBDA m2 :
        [m2 EXCEPT !.cpu.register_x = result])))))

\* ARR
Arr(m, mode) ==
    Let(Operand(m, mode), LAMBDA o :
    Let(RorAccumulator(AndWithRegisterA(o.m, o.v)), LAMBDA m1 :
    Let(m1.cpu.register_a, LAMBDA result :
    Let(BitAnd(result \div 32, 1), LAMBDA bit_5 :
    Let(BitAnd(result \div 64, 1), LAMBDA bit_6 :
    Let(SetFlag(m1, CARRY, bit_6 = 1), LAMBDA m2 :
    Let(SetFlag(m2, OVERFLOW, BitXor(bit_5, bit_6) = 1), LAMBDA m3 :
        UpdateZeroAndNegativeFlags(m3, result))))))))

\* ANC
Anc(m, mode) ==
    Let(Operand(m, mode), LAMBDA o :
    Let(AndWithRegisterA(o.m, o.v), LAMBDA m1 :
        SetFlag(m1, CARRY, FlagContains(m1.cpu.status, NEGATIVE))))

\* LAX
Lax(m, mode) ==
    Let(Operand(m, mode), LAMBDA o :
    Let(SetRegisterA(o.m, o.v), LAMBDA m1 :
        [m1 EXCEPT !.cpu.register_x = m1.cpu.register_a]))

\* SAX
Sax(m, mode) ==
    Let(BitAnd(m.cpu.register_a, m.cpu.register_x), LAMBDA data :
    Let(GetOperandAddress(m, mode), LAMBDA a :
        MemWrite(a.m, a.v, data)))

\* XAA
Xaa(m, mode) ==
    Let(UpdateZeroAndNegativeFlags([m EXCEPT !.cpu.register_a = m.cpu.register_x],
                                         m.cpu.register_x), LAMBDA m1 :
    Let(Operand(m1, mode), LAMBDA o :
        AndWithRegisterA(o.m, o.v)))

\* LAS
Las(m, mode) ==
    Let(Operand(m, mode), LAMBDA o :
    Let(BitAnd(o.v, o.m.cpu.stack_ptr), LAMBDA data :
        UpdateZeroAndNegativeFlags(
            [o.m EXCEPT !.cpu.register_a = data, !.cpu.register_x = data, !.cpu.stack_ptr = data],
            data)))

\* TAS
Tas(m) ==
    Let(BitAnd(m.cpu.register_a, m.cpu.register_x), LAMBDA data :
    Let([m EXCEPT !.cpu.stack_ptr = data], LAMBDA m1 :
    Let(MemReadU16(m1, m1.cpu.program_counter), LAMBDA base :
    Let(CheckedAdd(base.m, base.v, m1.cpu.register_y, 65536), LAMBDA mem_address :
    Let(CheckedAdd(mem_address.m, mem_address.v \div 256, 1, 256), LAMBDA hi1 :
        MemWrite(hi1.m, mem_address.v, BitAnd(hi1.v, data)))))))

\* AHX (Indirect Y)
AhxIndirectY(m) ==
    Let(MemRead(m, m.cpu.program_counter), LAMBDA pos :
    Let(MemReadU16(pos.m, pos.v), LAMBDA base :
    Let(CheckedAdd(base.m, base.v, m.cpu.register_y, 65536), LAMBDA mem_address :
    Let(BitAnd(BitAnd(m.cpu.register_a, m.cpu.register_x), mem_address.v \div 256), LAMBDA data :
        MemWrite(mem_address.m, mem_address.v, data)))))

\* AHX (Absolute Y)
AhxAbsoluteY(m) ==
    Let(MemReadU16(m, m.cpu.program_counter), LAMBDA base :
    Let(CheckedAdd(base.m, base.v, m.cpu.register_y, 65536), LAMBDA mem_address :
    Let(BitAnd(BitAnd(m.cpu.register_a, m.cpu.register_x), mem_address.v \div 256), LAMBDA data :
        MemWrite(mem_address.m, mem_address.v, data))))

\* SHX and SHY: `reg` is stored, `index` is added to the operand address
Shxy(m, reg, index) ==
    Let(MemReadU16(m, m.cpu.program_counter), LAMBDA base :
    Let(CheckedAdd(base.m, base.v, index, 65536), LAMBDA mem_address :
    Let(CheckedAdd(mem_address.m, mem_address.v \div 256, 1, 256), LAMBDA hi1 :
        MemWrite(hi1.m, mem_address.v, BitAnd(reg, hi1.v)))))

\* JMP absolute (0x4C) and JMP indirect (0x6C)
JmpAbsolute(m) ==
    Let(MemReadU16(m, m.cpu.program_counter), LAMBDA r :
        [r.m EXCEPT !.cpu.program_counter = r.v])
\* a JMP indirect that always takes the high byte from the next address
JmpIndirect_NextByte(m) ==
    Let(MemReadU16(m, m.cpu.program_counter), LAMBDA addr :
    Let(MemRead(addr.m, addr.v), LAMBDA lo :
    Let(MemRead(lo.m, (addr.v + 1) % 65536), LAMBDA hi :
        [hi.m EXCEPT !.cpu.program_counter = FromLeBytes(lo.v, hi.v)])))
JmpIndirect(m) ==
    Let(MemReadU16(m, m.cpu.program_counter), LAMBDA addr :
    Let(IF BitAnd(addr.v, \h00FF) = \h00FF
        THEN Let(MemRead(addr.m, addr.v), LAMBDA lo :
             Let(MemRead(lo.m, BitAnd(addr.v, \hFF00)), LAMBDA hi :
                 [m |-> hi.m, v |-> FromLeBytes(lo.v, hi.v)]))
        ELSE MemReadU16(addr.m, addr.v), LAMBDA indirect_ref :
        [indirect_ref.m EXCEPT !.cpu.program_counter = indirect_ref.v]))

-----------------------------------------------------------------------------
(* src/cpu.rs: run_with_callback, the match on the opcode.                 *)

Flag(m, flag) == FlagContains(m.cpu.status, flag)

Exec(m, opcode, mode) ==
    CASE opcode \in {\h69, \h65, \h75, \h6D, \h7D, \h79, \h61, \h71} -> Adc(m, mode)
      [] opcode \in {\h29, \h25, \h35, \h2D, \h3D, \h39, \h21, \h31} -> And(m, mode)
      [] opcode = \h0A -> AslAccumulator(m)
      [] opcode \in {\h06, \h16, \h0E, \h1E} -> Asl(m, mode).m
      [] opcode = \h10 -> Branch(m, ~Flag(m, NEGATIVE))
      [] opcode = \h50 -> Branch(m, ~Flag(m, OVERFLOW))
      [] opcode = \h70 -> Branch(m, Flag(m, OVERFLOW))
      [] opcode = \h90 -> Branch(m, ~Flag(m, CARRY))
      [] opcode = \hB0 -> Branch(m, Flag(m, CARRY))
      [] opcode = \hD0 -> Branch(m, ~Flag(m, ZERO))
      [] opcode = \hF0 -> Branch(m, Flag(m, ZERO))
      [] opcode = \h30 -> Branch(m, Flag(m, NEGATIVE))
      [] opcode = \h18 -> SetFlag(m, CARRY, FALSE)
      [] opcode = \hB8 -> SetFlag(m, OVERFLOW, FALSE)
      [] opcode = \hD8 -> SetFlag(m, DECIMAL, FALSE)
      [] opcode = \h58 -> SetFlag(m, INTERRUPT_DISABLE, FALSE)
      [] opcode \in {\h24, \h2C} -> Bit(m, mode)
      [] opcode \in {\hC9, \hC5, \hD5, \hCD, \hDD, \hD9, \hC1, \hD1} ->
            Compare(m, m.cpu.register_a, mode)
      [] opcode \in {\hE0, \hE4, \hEC} -> Compare(m, m.cpu.register_x, mode)
      [] opcode \in {\hC0, \hC4, \hCC} -> Compare(m, m.cpu.register_y, mode)
      [] opcode \in {\hC6, \hD6, \hCE, \hDE} -> Dec(m, mode)
      [] opcode = \hCA -> Dex(m)
      [] opcode = \h88 -> Dey(m)
      [] opcode \in {\h49, \h45, \h55, \h4D, \h5D, \h59, \h41, \h51} -> Eor(m, mode)
      [] opcode \in {\hE6, \hF6, \hEE, \hFE} -> Inc(m, mode).m
      [] opcode = \hE8 -> Inx(m)
      [] opcode = \hC8 -> Iny(m)
      [] opcode = \h4C -> JmpAbsolute(m)
      [] opcode = \h6C -> JmpIndirect(m)
      [] opcode = \h20 -> Jsr(m)
      [] opcode \in {\hA2, \hA6, \hB6, \hAE, \hBE} -> Ldx(m, mode)
      [] opcode \in {\hA0, \hA4, \hB4, \hAC, \hBC} -> Ldy(m, mode)
      [] opcode \in {\hA9, \hA5, \hB5, \hAD, \hBD, \hB9, \hA1, \hB1} -> Lda(m, mode)
      [] opcode = \h4A -> LsrAccumulator(m)
      [] opcode \in {\h46, \h56, \h4E, \h5E} -> Lsr(m, mode).m
      [] opcode = \hEA -> m
      [] opcode \in {\h09, \h05, \h15, \h0D, \h1D, \h19, \h01, \h11} -> Ora(m, mode)
      [] opcode = \h48 -> Pha(m)
      [] opcode = \h08 -> Php(m)
      [] opcode = \h68 -> Pla(m)
      [] opcode = \h28 -> Plp(m)
      [] opcode = \h2A -> RolAccumulator(m)
      [] opcode \in {\h26, \h36, \h2E, \h3E} -> Rol(m, mode).m
      [] opcode = \h6A -> RorAccumulator(m)
      [] opcode \in {\h66, \h76, \h6E, \h7E} -> Ror(m, mode).m
      [] opcode = \h40 -> Rti(m)
      [] opcode = \h60 -> Rts(m)
      [] opcode \in {\hE9, \hE5, \hF5, \hED, \hFD, \hF9, \hE1, \hF1} -> Sbc(m, mode)
      [] opcode = \h38 -> SetFlag(m, CARRY, TRUE)
      [] opcode = \hF8 -> SetFlag(m, DECIMAL, TRUE)
      [] opcode = \h78 -> SetFlag(m, INTERRUPT_DISABLE, TRUE)
      [] opcode \in {\h85, \h95, \h8D, \h9D, \h99, \h81, \h91} -> Sta(m, mode)
      [] opcode \in {\h86, \h96, \h8E} -> Stx(m, mode)
      [] opcode \in {\h84, \h94, \h8C} -> Sty(m, mode)
      [] opcode = \hAA -> Tax(m)
      [] opcode = \hA8 -> Tay(m)
      [] opcode = \hBA -> Tsx(m)
      [] opcode = \h8A -> Txa(m)
      [] opcode = \h9A -> Txs(m)
      [] opcode = \h98 -> Tya(m)
      [] opcode \in {\hC7, \hD7, \hCF, \hDF, \hDB, \hD3, \hC3} -> Dcp(m, mode)
      [] opcode \in {\h27, \h37, \h2F, \h3F, \h3B, \h33, \h23} ->
            Let(Rol(m, mode), LAMBDA r : AndWithRegisterA(r.m, r.v))
      [] opcode \in {\h07, \h17, \h0F, \h1F, \h1B, \h03, \h13} ->
            Let(Asl(m, mode), LAMBDA r : OrWithRegisterA(r.m, r.v))
      [] opcode \in {\h47, \h57, \h4F, \h5F, \h5B, \h43, \h53} ->
            Let(Lsr(m, mode), LAMBDA r : XorWithRegisterA(r.m, r.v))
      [] opcode \in {\h80, \h82, \h89, \hC2, \hE2} -> m
      [] opcode = \hCB -> Axs(m, mode)
      [] opcode = \h6B -> Arr(m, mode)
      [] opcode = \hEB -> Let(Operand(m, mode), LAMBDA o : SubFromRegisterA(o.m, o.v))
      [] opcode \in {\h0B, \h2B} -> Anc(m, mode)
      [] opcode = \h4B ->
            Let(Operand(m, mode), LAMBDA o : LsrAccumulator(AndWithRegisterA(o.m, o.v)))
      [] opcode \in {\h04, \h44, \h64, \h14, \h34, \h54, \h74, \hD4, \hF4, \h0C, \h1C,
                     \h3C, \h5C, \h7C, \hDC, \hFC} -> MemRead(m, m.cpu.program_counter).m
      [] opcode \in {\h67, \h77, \h6F, \h7F, \h7B, \h63, \h73} ->
            Let(Ror(m, mode), LAMBDA r : AddToRegisterA(r.m, r.v))
      [] opcode \in {\hE7, \hF7, \hEF, \hFF, \hFB, \hE3, \hF3} ->
            Let(Inc(m, mode), LAMBDA r : SubFromRegisterA(r.m, r.v))
      [] opcode \in {\h02, \h12, \h22, \h32, \h42, \h52, \h62, \h72, \h92, \hB2, \hD2,
                     \hF2} -> m
      [] opcode \in {\h1A, \h3A, \h5A, \h7A, \hDA, \hFA} -> m
      [] opcode \in {\hA7, \hB7, \hAF, \hBF, \hA3, \hB3} -> Lax(m, mode)
      [] opcode \in {\h87, \h97, \h8F, \h83} -> Sax(m, mode)
      [] opcode = \hAB -> Tax(Lda(m, mode))
      [] opcode = \h8B -> Xaa(m, mode)
      [] opcode = \hBB -> Las(m, mode)
      [] opcode = \h9B -> Tas(m)
      [] opcode = \h93 -> AhxIndirectY(m)
      [] opcode = \h9F -> AhxAbsoluteY(m)
      [] opcode = \h9E -> Shxy(m, m.cpu.register_x, m.cpu.register_y)
      [] opcode = \h9C -> Shxy(m, m.cpu.register_y, m.cpu.register_x)
      [] OTHER -> Fail(m, "not yet implemented")

\* CPU::has_jumped_or_branched
HasJumpedOrBranched(m, other_addr) == m.cpu.program_counter # other_addr

\* a loop body that returns on 0x00 before it increments the program counter
RunLoopBody_ReturnBeforeIncrement(m) ==
    Let(MemRead(m, m.cpu.program_counter), LAMBDA fetch :
    Let(fetch.v, LAMBDA opcode :
    Let(OpCodeMode(opcode), LAMBDA mode :
    Let(CheckedAdd(fetch.m, m.cpu.program_counter, 1, 65536), LAMBDA inc :
    Let([inc.m EXCEPT !.cpu.program_counter = inc.v], LAMBDA m1 :
    Let(inc.v, LAMBDA program_counter_before_exec :
        IF opcode = \h00 THEN [m |-> fetch.m, opcode |-> opcode, returned |-> TRUE]
        ELSE
    Let(Exec(m1, opcode, mode), LAMBDA m2 :
    Let(CheckedAdd(m2, m2.cpu.program_counter, OpCodeAdditionalBytes(opcode), 65536), LAMBDA adv :
        [ m |-> IF ~HasJumpedOrBranched(m2, program_counter_before_exec)
                THEN [adv.m EXCEPT !.cpu.program_counter = adv.v]
                ELSE m2,
          opcode |-> opcode,
          returned |-> FALSE ]))))))))

\* run_with_callback: one pass through the loop body.  `returned` is TRUE
\* when the pass ends in `return` (opcode 0x00).
RunLoopBody(m) ==
    Let(MemRead(m, m.cpu.program_counter), LAMBDA fetch :
    Let(fetch.v, LAMBDA opcode :
    Let(OpCodeMode(opcode), LAMBDA mode :
    Let(CheckedAdd(fetch.m, m.cpu.program_counter, 1, 65536), LAMBDA inc :
    Let([inc.m EXCEPT !.cpu.program_counter = inc.v], LAMBDA m1 :
    Let(inc.v, LAMBDA program_counter_before_exec :
        IF opcode = \h00 THEN [m |-> m1, opcode |-> opcode, returned |-> TRUE]
        ELSE
    Let(Exec(m1, opcode, mode), LAMBDA m2 :
    Let(CheckedAdd(m2, m2.cpu.program_counter, OpCodeAdditionalBytes(opcode), 65536), LAMBDA adv :
        [ m |-> IF ~HasJumpedOrBranched(m2, program_counter_before_exec)
                THEN [adv.m EXCEPT !.cpu.program_counter = adv.v]
                ELSE m2,
          opcode |-> opcode,
          returned |-> FALSE ]))))))))

\* CPU::load: the bytes with indices lo .. hi - 1 are written, in order,
\* until a panic
RECURSIVE LoadRange(_, _, _, _)
LoadRange(m, program, lo, hi) ==
    IF Panicked(m) \/ hi <= lo THEN m
    ELSE IF hi = lo + 1 THEN MemWrite(m, \h0600 + lo, program[lo + 1])
    ELSE Let(LoadRange(m, program, lo, (lo + hi) \div 2), LAMBDA m1 :
             IF Panicked(m1) THEN m1 ELSE LoadRange(m1, program, (lo + hi) \div 2, hi))
Load(m, program) == LoadRange(m, program, 0, Len(program))

\* CPU::reset
Reset(m) ==
    Let(MemReadU16(m, \hFFFC), LAMBDA r :
        [r.m EXCEPT !.cpu = [ register_a      |-> 0,
                              register_x      |-> 0,
                              register_y      |-> 0,
                              status          |-> FromBitsTruncate(\h24),
                              stack_ptr       |-> STACK_PTR_INIT,
                              program_counter |-> r.v ]])

\* CPU::load_and_run, up to the call of run_with_callback
LoadAndReset(m, program) ==
    Let(Reset(Load(m, program)), LAMBDA m1 :
        [m1 EXCEPT !.cpu.program_counter = \h0600])

-----------------------------------------------------------------------------
(* The state machine.                                                      *)

\* bounds of the exploration
MaxOps == 2        \* API calls (bus reads and writes, load_and_run) per session
MaxRuns == 1       \* programs run per session where only programs are run
MaxPush == 3       \* pushes in a row in the generated stack programs
MaxCalls == 2      \* JSRs remembered in the history of calls

\* the cartridges tried: PRG banks, CHR banks, control byte 1 of the header
Roms ==
    { RomNew(prg_banks, 1, control_byte1) : prg_banks \in {1, 2}, control_byte1 \in {\h00, \h01} }
\* the cartridge of rom::test::test_rom, with the image bytes of this model
TestRom == RomNew(2, 1, \h31)

NoOp == [op |-> "new", addr |-> 0, data |-> 0, ret |-> 0, before |-> CPUNew]

InitWith(roms, builds) ==
    /\ \E rom \in roms : bus = BusNew(rom)
    /\ cpu = CPUNew
    /\ panic = "none"
    /\ running = FALSE
    /\ last = NoOp
    /\ pushed = [base |-> STACK_PTR_INIT, vals |-> <<>>]
    /\ calls = <<>>
    /\ hist = [status_read |-> FALSE, addr_writes |-> 0, scroll_writes |-> 0]
    /\ nops = 0
    /\ overflow_checks \in builds

Init == InitWith(Roms, BOOLEAN)

\* the cells of the stack page 0x0100..=0x01FF hold the same bytes in b1 and b2
SameStackPage(b1, b2) ==
    \A i \in (DOMAIN b1.vram) \cup (DOMAIN b2.vram) :
        (i >= \h0100 /\ i <= \h01FF) => ArrGet(b1.vram, i) = ArrGet(b2.vram, i)

\* history of PHA/PLA: the bytes pushed and not yet pulled since the stack
\* pointer or the stack page was last changed by anything else
PushedAfter(opcode, c0, b0, c1, b1) ==
    IF opcode = \h48 /\ Len(pushed.vals) < 256
        THEN [pushed EXCEPT !.vals = Append(pushed.vals, c0.register_a)]
    ELSE IF opcode = \h68 /\ pushed.vals # <<>>
        THEN [pushed EXCEPT !.vals = SubSeq(pushed.vals, 1, Len(pushed.vals) - 1)]
    ELSE IF c1.stack_ptr # c0.stack_ptr \/ ~SameStackPage(b0, b1)
        THEN [base |-> c1.stack_ptr, vals |-> <<>>]
    ELSE pushed

\* history of JSR/RTS: a JSR is remembered (up to MaxCalls of them), an RTS
\* forgets the latest
CallsAfter(opcode, c0) ==
    IF opcode = \h20 /\ Len(calls) < MaxCalls
        THEN Append(calls, [at |-> c0.program_counter, sp |-> c0.stack_ptr])
    ELSE IF opcode = \h60 /\ calls # <<>>
        THEN SubSeq(calls, 1, Len(calls) - 1)
    ELSE calls

\* history of the PPU's latches: a completed read of Status is remembered and
\* starts the counts again; a completed write of Address or Scroll is counted
HistAfter(op, reg, failed) ==
    IF failed THEN hist
    ELSE IF op = "read" /\ reg = \h2002
        THEN [status_read |-> TRUE, addr_writes |-> 0, scroll_writes |-> 0]
    ELSE IF op = "write" /\ reg = \h2006
        THEN [hist EXCEPT !.addr_writes = 1 - hist.addr_writes]
    ELSE IF op = "write" /\ reg = \h2005
        THEN [hist EXCEPT !.scroll_writes = 1 - hist.scroll_writes]
    ELSE hist
\* the PPU register a bus address stands for, 0 for an address outside the window
RegisterOf(a) ==
    IF a >= PPU_REGISTERS /\ a <= PPU_REGISTERS_MIRRORS_END THEN MirrorAddrPPU(a) ELSE 0

Idle == panic = "none" /\ ~running /\ nops < MaxOps

\* a caller reads a byte through the bus (Mem::mem_read)
BusRead(a) ==
    /\ Idle
    /\ LetAct(BusMemRead(bus, a), LAMBDA r :
           /\ bus' = r.bus
           /\ panic' = r.panic
           /\ hist' = HistAfter("read", RegisterOf(a), r.panic # "none")
           /\ last' = [op |-> "read", addr |-> a, data |-> 0, ret |-> r.v, before |-> cpu])
    /\ nops' = nops + 1
    /\ UNCHANGED <<cpu, running, pushed, calls, overflow_checks>>

\* a caller writes a byte through the bus (Mem::mem_write)
BusWrite(a, d) ==
    /\ Idle
    /\ LetAct(BusMemWrite(bus, a, d), LAMBDA r :
           /\ bus' = r.bus
           /\ panic' = r.panic
           /\ hist' = HistAfter("write", RegisterOf(a), r.panic # "none")
           /\ pushed' = PushedAfter(\hEA, cpu, bus, cpu, r.bus))
    /\ last' = [op |-> "write", addr |-> a, data |-> d, ret |-> 0, before |-> cpu]
    /\ nops' = nops + 1
    /\ UNCHANGED <<cpu, running, calls, overflow_checks>>

\* CPU::load_and_run(program), up to the entry of the run loop
LoadAndRun(program) ==
    /\ Idle
    /\ LetAct(LoadAndReset(Machine(cpu, bus), program), LAMBDA m :
           /\ bus' = m.bus
           /\ panic' = m.panic
           /\ cpu' = IF Panicked(m) THEN cpu ELSE m.cpu
           /\ running' = ~Panicked(m)
           /\ pushed' = [base |-> m.cpu.stack_ptr, vals |-> <<>>])
    /\ calls' = <<>>
    /\ UNCHANGED hist
    /\ last' = [op |-> "load_and_run", addr |-> \h0600, data |-> Len(program), ret |-> 0,
                before |-> cpu]
    /\ nops' = nops + 1
    /\ UNCHANGED overflow_checks

\* run_with_callback: one pass through the loop (fetch, decode, execute)
Step ==
    /\ panic = "none"
    /\ running
    /\ LetAct(RunLoopBody(Machine(cpu, bus)), LAMBDA r :
           /\ bus' = r.m.bus
           /\ panic' = r.m.panic
           /\ cpu' = IF Panicked(r.m) THEN cpu ELSE r.m.cpu
           /\ running' = (~Panicked(r.m) /\ ~r.returned)
           /\ calls' = IF Panicked(r.m) THEN calls ELSE CallsAfter(r.opcode, cpu)
           /\ pushed' = IF Panicked(r.m) THEN pushed
                        ELSE PushedAfter(r.opcode, cpu, bus, r.m.cpu, r.m.bus)
           /\ last' = [op |-> "step", addr |-> cpu.program_counter, data |-> r.opcode,
                       ret |-> 0, before |-> cpu])
    /\ UNCHANGED <<hist, nops, overflow_checks>>

\* the PPU used directly, as the bus uses it: a read of one of its registers
\* (Mem for PPU: mem_read)
PpuReadOp(a) ==
    /\ panic = "none" /\ ~running
    /\ LetAct(PPUMemRead(bus.ppu, a), LAMBDA r :
           /\ bus' = [bus EXCEPT !.ppu = r.ppu]
           /\ panic' = r.panic
           /\ hist' = HistAfter("read", a, r.panic # "none")
           /\ last' = [op |-> "ppu_read", addr |-> a, data |-> 0, ret |-> r.v, before |-> cpu])
    /\ UNCHANGED <<cpu, running, pushed, calls, overflow_checks>>
PpuRead(a) == PpuReadOp(a) /\ UNCHANGED nops

\* a write of one of the PPU's registers (Mem for PPU: mem_write)
PpuWriteOp(a, d) ==
    /\ panic = "none" /\ ~running
    /\ LetAct(PPUMemWrite(bus.ppu, a, d), LAMBDA r :
           /\ bus' = [bus EXCEPT !.ppu = r.ppu]
           /\ panic' = r.panic
           /\ hist' = HistAfter("write", a, r.panic # "none"))
    /\ last' = [op |-> "ppu_write", addr |-> a, data |-> d, ret |-> 0, before |-> cpu]
    /\ UNCHANGED <<cpu, running, pushed, calls, overflow_checks>>
PpuWrite(a, d) == PpuWriteOp(a, d) /\ UNCHANGED nops

\* PPU::tick(cycles); last.ret is 1 when it returns true
TickOp(cycles) ==
    /\ panic = "none" /\ ~running
    /\ LetAct(PPUTick(bus.ppu, cycles), LAMBDA r :
           /\ bus' = [bus EXCEPT !.ppu = r.ppu]
           /\ last' = [op |-> "tick", addr |-> 0, data |-> cycles,
                       ret |-> IF r.v THEN 1 ELSE 0, before |-> cpu])
    /\ UNCHANGED <<cpu, panic, running, pushed, calls, hist, overflow_checks>>
Tick(cycles) == TickOp(cycles) /\ UNCHANGED nops

\* PPU::poll_nmi(); last.ret is what it returns
PollNmi ==
    /\ panic = "none" /\ ~running
    /\ LetAct(PPUPollNmi(bus.ppu), LAMBDA r :
           /\ bus' = [bus EXCEPT !.ppu = r.ppu]
           /\ last' = [op |-> "poll_nmi", addr |-> 0, data |-> 0, ret |-> r.v, before |-> cpu])
    /\ UNCHANGED <<cpu, panic, running, pushed, calls, hist, nops, overflow_checks>>

\* the addresses and bytes callers use, and the programs they run
BusAddrs ==
    {\h0000, \h0800, \h1800, \h07FF, \h1FFF} \cup (\h2000 .. \h2007)
        \cup {\h2008, \h3FFA, \h3FFE, \h3FFF} \cup {\h4000, \h4014, \h7FFF}
        \cup {\h8000, \hBFFF, \hC000, \hFFFF}
BusData == {\h20, \h85}
BusPrograms ==
    { <<\hA9, \h07, \h8D, \h00, \h80>>,      \* LDA #7; STA $8000
      <<\hA9, \h07, \h8D, \h07, \h20>>,      \* LDA #7; STA $2007
      <<\hA9, \h07, \h8D, \h00, \h50>> }     \* LDA #7; STA $5000

Next ==
    \/ \E a \in BusAddrs : BusRead(a)
    \/ \E a \in BusAddrs, d \in BusData : BusWrite(a, d)
    \/ \E program \in BusPrograms : LoadAndRun(program)
    \/ Step

Spec == Init /\ [][Next]_vars

\* Sessions that only run programs, on the cartridge of the tests.
InitCpu == InitWith({TestRom}, BOOLEAN)
RunAny(programs) == nops < MaxRuns /\ \E program \in programs : LoadAndRun(program)

\* the byte the program or an instruction left in RAM
Ram(i) == ArrGet(bus.vram, i)
\* an instruction has completed
Stepped == last.op = "step" /\ panic = "none"
\* the operand byte of the instruction that has just completed (memory as it is now)
LastOperand ==
    Operand([cpu |-> [last.before EXCEPT !.program_counter = last.addr + 1],
             bus |-> bus, panic |-> "none"], OpCodeMode(last.data)).v
CarryOf(status) == IF FlagContains(status, CARRY) THEN 1 ELSE 0

\* ALU programs, for the edge values a and b:
\*   LDA #a; CLC or SEC; ADC #b; SBC #b      and     LDA #a; CLC or SEC; *SBC #b (0xEB)
AluEdge == {\h00, \h01, \h50, \h7F, \h80, \hFF}
AluPrograms ==
    { <<\hA9, a, f, \h69, b, \hE9, b>> : a \in AluEdge, b \in AluEdge, f \in {\h18, \h38} }
        \cup { <<\hA9, a, f, \hEB, b>> : a \in AluEdge, b \in AluEdge, f \in {\h18, \h38} }

NextAlu ==
    \/ RunAny(AluPrograms)
    \/ Step

SpecAlu == InitCpu /\ [][NextAlu]_vars

-----------------------------------------------------------------------------
(* Properties of the bus.                                                  *)

InRam(a) == a >= \h0000 /\ a <= \h1FFF
InPpuWindow(a) == a >= \h2000 /\ a <= \h3FFF
InUnmapped(a) == a >= \h4000 /\ a <= \h7FFF
InPrgRom(a) == a >= \h8000 /\ a <= \hFFFF

\* a caller's bus read, or bus write, has just been performed
DidBusRead == last'.op = "read" /\ nops' = nops + 1
DidBusWrite == last'.op = "write" /\ nops' = nops + 1

\* RAM addresses probed after each write: three cells in each of the four mirrors
RamProbes == { k * \h0800 + i : k \in 0 .. 3, i \in {\h0000, \h0001, \h07FF} }

\* C1: after a bus write of d to a RAM address a, every RAM address with the
\* same low eleven bits reads d, and every other RAM address reads what it
\* read before the write (so a written byte stays until a mirror of its
\* address is written); a bus write anywhere else changes no RAM read.
C1_RamMirroring ==
    [][ DidBusWrite =>
            \A a2 \in RamProbes :
                IF InRam(last'.addr) /\ BitAnd(a2, \h07FF) = BitAnd(last'.addr, \h07FF)
                THEN BusMemRead(bus', a2).v = last'.data
                ELSE BusMemRead(bus', a2).v = BusMemRead(bus, a2).v ]_vars

\* two writes to different cells: the first byte is still read at all four
\* mirrors of 0x0000 after the write to 0x07FF
C1_Witness ==
    /\ last.op = "write" /\ last.addr = \h07FF /\ last.data = \h20 /\ nops = 2
    /\ \A a2 \in {\h0000, \h0800, \h1000, \h1800} : BusMemRead(bus, a2).v = \h85
    /\ BusMemRead(bus, \h1FFF).v = \h20

\* C2: a bus read or write at any address of 0x2000..=0x3FFF returns what the
\* same operation at 0x2000 + (a mod 8) returns, faults when that one faults,
\* and leaves the bus (the PPU included) in the same state.
C2_PpuWindowMirroring ==
    [][ /\ (DidBusRead /\ InPpuWindow(last'.addr)) =>
              Let(BusMemRead(bus, \h2000 + (last'.addr % 8)), LAMBDA r :
                  bus' = r.bus /\ panic' = r.panic /\ last'.ret = r.v)
        /\ (DidBusWrite /\ InPpuWindow(last'.addr)) =>
              Let(BusMemWrite(bus, \h2000 + (last'.addr % 8), last'.data), LAMBDA r :
                  bus' = r.bus /\ panic' = r.panic) ]_vars

\* a PPU-data write through the last mirror 0x3FFF has stored its byte in VRAM
C2_Witness ==
    /\ last.op = "write" /\ last.addr = \h3FFF /\ panic = "none"
    /\ ArrGet(bus.ppu.vram, 0) = last.data
    /\ AddressRegisterGet(bus.ppu.addr) = \h2001

\* C3: with 32 KB of program ROM a bus read at a in 0x8000..=0xFFFF returns
\* the image byte at a - 0x8000, with one 16 KB bank the image byte at
\* (a - 0x8000) mod 0x4000, and the read does not fault; with one bank the
\* two halves of the range read the same.
C3_PrgRomRouting ==
    /\ (last.op = "read" /\ InPrgRom(last.addr)) =>
          /\ panic = "none"
          /\ bus.prg_rom.len = 2 * PRG_ROM_BANK_SIZE =>
                last.ret = PrgImage(last.addr - \h8000)
          /\ bus.prg_rom.len = PRG_ROM_BANK_SIZE =>
                last.ret = PrgImage((last.addr - \h8000) % \h4000)
    /\ bus.prg_rom.len = PRG_ROM_BANK_SIZE =>
          \A k \in {\h0000, \h0001, \h3FFF} :
              /\ BusMemRead(bus, \h8000 + k).v = BusMemRead(bus, \hC000 + k).v
              /\ BusMemRead(bus, \hC000 + k).panic = "none"

\* a read in the upper half of the range on a cartridge with one bank
C3_Witness ==
    /\ last.op = "read" /\ last.addr = \hFFFF /\ bus.prg_rom.len = PRG_ROM_BANK_SIZE
    /\ last.ret = PrgImage(\h3FFF) /\ panic = "none"

\* C4: a bus read at an address of 0x4000..=0x7FFF returns 0, a bus write
\* there does nothing; neither faults and neither changes the bus (RAM, PPU,
\* program ROM).
C4_UnmappedLenient ==
    [][ ((DidBusRead \/ DidBusWrite) /\ InUnmapped(last'.addr)) =>
            /\ panic' = "none"
            /\ bus' = bus
            /\ last'.op = "read" => last'.ret = 0 ]_vars

\* a write to 0x4014 after a RAM write: RAM still holds the byte
C4_Witness ==
    /\ last.op = "write" /\ last.addr = \h4014 /\ nops = 2 /\ panic = "none"
    /\ BusMemRead(bus, \h0000).v = \h85

\* the VRAM pointer selects the character ROM
PointerInChr(b) == AddressRegisterGet(b.ppu.addr) <= CHR_ROM_END_ADDR

\* C5: no step (bus write, PPU register write, load, CPU instruction) changes
\* the program-ROM image or the character-ROM image; a bus write to the
\* program ROM faults and changes nothing, and a PPU-data write with the
\* pointer in the character ROM leaves RAM, VRAM and the palette as they were.
C5_RomImmutable ==
    [][ /\ bus'.prg_rom = bus.prg_rom
        /\ bus'.ppu.chr_rom = bus.ppu.chr_rom
        /\ (DidBusWrite /\ InPrgRom(last'.addr)) => (panic' # "none" /\ bus' = bus)
        /\ (DidBusWrite /\ InPpuWindow(last'.addr) /\ last'.addr % 8 = 7 /\ PointerInChr(bus)) =>
              /\ bus'.vram = bus.vram
              /\ bus'.ppu.vram = bus.ppu.vram
              /\ bus'.ppu.palette_table = bus.ppu.palette_table ]_vars

\* a PPU-data write with the pointer at 0x0000 has been performed: the pointer
\* moved on, the character ROM still reads its image byte
C5_Witness ==
    /\ last.op = "write" /\ last.addr = \h2007 /\ panic = "none"
    /\ AddressRegisterGet(bus.ppu.addr) = 1
    /\ RomGetChr(bus.ppu.chr_rom, 0) = ChrImage(0)
    /\ bus.ppu.vram = EmptyArr

-----------------------------------------------------------------------------
(* Properties of the adder: ADC, SBC and the unofficial SBC (0xEB).        *)

AdcOps == {\h69, \h65, \h75, \h6D, \h7D, \h79, \h61, \h71}
SbcOps == {\hE9, \hE5, \hF5, \hED, \hFD, \hF9, \hE1, \hF1}
Bit7(v) == v >= 128
\* a CPU holding a in the accumulator and c in the Carry flag
AdderMachine(a, c) ==
    Machine([CPUNew EXCEPT !.register_a = a,
                           !.status = FlagSet(CPUNew.status, CARRY, c = 1)], bus)
\* what ADC of b leaves in c1, from accumulator a and carry-in c
AdcResult(a, b, c, c1) ==
    /\ c1.register_a = (a + b + c) % 256
    /\ FlagContains(c1.status, CARRY) = (a + b + c > \hFF)
    /\ FlagContains(c1.status, OVERFLOW) =
           (Bit7(a) = Bit7(b) /\ Bit7(c1.register_a) # Bit7(a))
    /\ FlagContains(c1.status, ZERO) = (c1.register_a = 0)
    /\ FlagContains(c1.status, NEGATIVE) = Bit7(c1.register_a)
\* what SBC of b leaves in c1, from accumulator a and carry-in c
SbcResult(a, b, c, c1) ==
    /\ c1.register_a = (a - b - (1 - c) + 256) % 256
    /\ c1.register_a = (a + BitXor(b, \hFF) + c) % 256
    /\ FlagContains(c1.status, CARRY) = (a >= b + (1 - c))
\* registers and flags agree
SameResult(c1, c2) == c1.register_a = c2.register_a /\ c1.status = c2.status

\* C7: after every executed ADC the accumulator is (a + b + c) mod 256, Carry
\* is set iff a + b + c > 0xFF, Overflow iff a and b have the same bit 7 and
\* the result's differs, Zero/Negative follow the result; an executed
\* unofficial SBC (add_to_register_a) leaves what the official SBC
\* (add_to_accumulator) would; and for every (a, b, c) the two adders leave
\* the same CPU, which is the one described.
C7_AdcAndAdders ==
    /\ (Stepped /\ last.data \in AdcOps) =>
           AdcResult(last.before.register_a, LastOperand, CarryOf(last.before.status), cpu)
    /\ (Stepped /\ last.data = \hEB) =>
           SameResult(cpu, AddToAccumulator(Machine(last.before, bus),
                                            SbcOperand(LastOperand)).cpu)
    /\ last.op = "new" =>
           \A a \in Byte, b \in Byte, c \in {0, 1} :
               Let(AddToAccumulator(AdderMachine(a, c), b), LAMBDA m1 :
                   /\ AdcResult(a, b, c, m1.cpu)
                   /\ AddToRegisterA(AdderMachine(a, c), b) = m1)
\* ADC #$01 with accumulator 0x7F and the carry set has left 0x81 and Overflow
C7_Witness ==
    /\ Stepped /\ last.data = \h69
    /\ last.before.register_a = \h7F /\ LastOperand = \h01
    /\ CarryOf(last.before.status) = 1
    /\ cpu.register_a = \h81
    /\ FlagContains(cpu.status, OVERFLOW) /\ ~FlagContains(cpu.status, CARRY)

\* C8: every executed SBC (official or 0xEB) leaves (a - b - (1 - c)) mod 256,
\* which is (a + (b XOR 0xFF) + c) mod 256, and sets Carry iff
\* a >= b + (1 - c); for every (a, b, c) both subtractors do so; and the
\* operand transformation of the code is the one's complement for every b.
C8_Sbc ==
    /\ (Stepped /\ last.data \in SbcOps \cup {\hEB}) =>
           SbcResult(last.before.register_a, LastOperand, CarryOf(last.before.status), cpu)
    /\ last.op = "new" =>
           /\ \A b \in Byte : SbcOperand(b) = BitXor(b, \hFF) /\ SbcOperand(b) = 255 - b
           /\ \A a \in Byte, b \in Byte, c \in {0, 1} :
                  /\ SbcResult(a, b, c, AddToAccumulator(AdderMachine(a, c), SbcOperand(b)).cpu)
                  /\ SbcResult(a, b, c, SubFromRegisterA(AdderMachine(a, c), b).cpu)
\* SBC #$80 with accumulator 0x00 and the carry set has left 0x80 and a borrow
C8_Witness ==
    /\ Stepped /\ last.data = \hE9
    /\ last.before.register_a = \h00 /\ LastOperand = \h80
    /\ CarryOf(last.before.status) = 1
    /\ cpu.register_a = \h80
    /\ ~FlagContains(cpu.status, CARRY)

\* the SBC of a program LDA #a; CLC or SEC; ADC #b; SBC #b has just completed
RoundTripDone ==
    /\ Stepped /\ last.data = \hE9 /\ last.addr = \h0605
    /\ Ram(\h0600) = \hA9 /\ Ram(\h0603) = \h69 /\ Ram(\h0604) = Ram(\h0606)
\* its accumulator a, its carry-in c, and the carry the ADC produced
RoundTripA == Ram(\h0601)
RoundTripC == IF Ram(\h0602) = \h38 THEN 1 ELSE 0
RoundTripCarryOut == CarryOf(last.before.status)

\* C9 as stated: ADC b then SBC b, with the carry the ADC produced, restores a.
C9_RoundTripAsStated == RoundTripDone => cpu.register_a = RoundTripA

\* C9: ADC b then SBC b, with the carry the ADC produced, leaves
\* (a + c + carry_out - 1) mod 256: the accumulator is restored exactly when
\* the carry the ADC produced differs from its carry-in c; when both are
\* clear it is a - 1, when both are set it is a + 1.  The same holds of the
\* adder for every (a, b, c).
C9_RoundTrip ==
    /\ RoundTripDone =>
           /\ cpu.register_a = (RoundTripA + RoundTripC + RoundTripCarryOut + 255) % 256
           /\ (cpu.register_a = RoundTripA) = (RoundTripCarryOut # RoundTripC)
    /\ last.op = "new" =>
           \A a \in Byte, b \in Byte, c \in {0, 1} :
               Let(AddToAccumulator(AdderMachine(a, c), b), LAMBDA m1 :
               Let(AddToAccumulator(m1, SbcOperand(b)), LAMBDA m2 :
                   /\ m2.cpu.register_a = (a + c + CarryIn(m1) + 255) % 256
                   /\ (m2.cpu.register_a = a) = (CarryIn(m1) # c)))
\* LDA #1; SEC; ADC #1; SBC #1: the ADC left 3 and no carry, the SBC restored 1
C9_Witness ==
    /\ RoundTripDone
    /\ RoundTripA = \h01 /\ RoundTripC = 1 /\ Ram(\h0604) = \h01
    /\ last.before.register_a = \h03 /\ RoundTripCarryOut = 0
    /\ cpu.register_a = \h01

-----------------------------------------------------------------------------
(* The Zero/Negative rule of the loads, transfers, pull and logical ops.   *)

LdaOps == {\hA9, \hA5, \hB5, \hAD, \hBD, \hB9, \hA1, \hB1}
LdxOps == {\hA2, \hA6, \hB6, \hAE, \hBE}
LdyOps == {\hA0, \hA4, \hB4, \hAC, \hBC}
AndOps == {\h29, \h25, \h35, \h2D, \h3D, \h39, \h21, \h31}
OraOps == {\h09, \h05, \h15, \h0D, \h1D, \h19, \h01, \h11}
EorOps == {\h49, \h45, \h55, \h4D, \h5D, \h59, \h41, \h51}
\* the 42 opcodes with a memory operand, in the order the programs run them
ZNMemOpSeq ==
    <<\hA9, \hA5, \hB5, \hAD, \hBD, \hB9, \hA1, \hB1,
      \hA2, \hA6, \hB6, \hAE, \hBE,
      \hA0, \hA4, \hB4, \hAC, \hBC,
      \h29, \h25, \h35, \h2D, \h3D, \h39, \h21, \h31,
      \h09, \h05, \h15, \h0D, \h1D, \h19, \h01, \h11,
      \h49, \h45, \h55, \h4D, \h5D, \h59, \h41, \h51>>
ZNMemOps == LdaOps \cup LdxOps \cup LdyOps \cup AndOps \cup OraOps \cup EorOps
\* TAX, TAY, TXA, TYA, TSX, PLA
ZNOps == ZNMemOps \cup {\hAA, \hA8, \h8A, \h98, \hBA, \h68}

ZNValues == {\h00, \h01, \h7F, \h80, \hFF}
\* the register before the instruction: Zero set, or Negative set
ZNBefore == {\h00, \hFF}
\* LDA #p; PHA; PLP: the flags before, all clear or all set
ZNFlags == { <<\hA9, p, \h48, \h28>> : p \in {\h00, \hFF} }
\* y at $10, $0210 and $0212, the pointer $0210 at $20/$21, X = 1, Y = 2
ZNSetup(y) ==
    <<\hA9, y, \h85, \h10, \h8D, \h10, \h02, \h8D, \h12, \h02,
      \hA9, \h10, \h85, \h20, \hA9, \h02, \h85, \h21, \hA2, \h01, \hA0, \h02>>
\* the instruction, with the operand bytes that make it read y
ZNInstruction(op, y) ==
    CASE OpCodeMode(op) = "Immediate"  -> <<op, y>>
      [] OpCodeMode(op) = "ZeroPage"   -> <<op, \h10>>
      [] OpCodeMode(op) = "ZeroPage_X" -> <<op, \h0F>>
      [] OpCodeMode(op) = "ZeroPage_Y" -> <<op, \h0E>>
      [] OpCodeMode(op) = "Absolute"   -> <<op, \h10, \h02>>
      [] OpCodeMode(op) = "Absolute_X" -> <<op, \h0F, \h02>>
      [] OpCodeMode(op) = "Absolute_Y" -> <<op, \h0E, \h02>>
      [] OpCodeMode(op) = "Indirect_X" -> <<op, \h1F>>
      [] OpCodeMode(op) = "Indirect_Y" -> <<op, \h20>>
\* flags; LDA #x; the instruction; X = 1 and Y = 2 again after LDX and LDY
ZNBlock(op, x, y, f) ==
    f \o <<\hA9, x>> \o ZNInstruction(op, y)
      \o (IF op \in LdxOps \cup LdyOps THEN <<\hA2, \h01, \hA0, \h02>> ELSE <<>>)
RECURSIVE ZNBlocks(_, _, _, _)
ZNBlocks(n, x, y, f) ==
    IF n = 0 THEN <<>> ELSE ZNBlocks(n - 1, x, y, f) \o ZNBlock(ZNMemOpSeq[n], x, y, f)
ZNTransfers(x, y, f) ==
    f \o <<\hA9, y, \hA2, x, \hAA>>                 \* LDA #y; LDX #x; TAX
      \o f \o <<\hA9, y, \hA0, x, \hA8>>           \* LDA #y; LDY #x; TAY
      \o f \o <<\hA2, y, \hA9, x, \h8A>>           \* LDX #y; LDA #x; TXA
      \o f \o <<\hA0, y, \hA9, x, \h98>>           \* LDY #y; LDA #x; TYA
      \o f \o <<\hA9, y, \h48, \hA9, x, \h68>>     \* LDA #y; PHA; LDA #x; PLA
      \o <<\hA2, y, \h9A>> \o f \o <<\hA2, x, \hBA>>  \* LDX #y; TXS; flags; LDX #x; TSX
\* one program for each y left in the register, x held before, and flags
ZNPrograms ==
    { ZNSetup(y) \o ZNBlocks(Len(ZNMemOpSeq), x, y, f) \o ZNTransfers(x, y, f) :
          x \in ZNBefore, y \in ZNValues, f \in ZNFlags }

NextZN ==
    \/ RunAny(ZNPrograms)
    \/ Step

SpecZN == InitCpu /\ [][NextZN]_vars

\* the register the instruction writes
ZNDestination(op) ==
    IF op \in LdxOps \cup {\hAA, \hBA} THEN cpu.register_x
    ELSE IF op \in LdyOps \cup {\hA8} THEN cpu.register_y
    ELSE cpu.register_a
\* Carry, Interrupt-Disable, Decimal, Break, Break2 and Overflow
OtherFlags(status) == BitAnd(status, 255 - ZERO - NEGATIVE)

\* C6: after LDA, LDX, LDY, TAX, TAY, TXA, TYA, TSX, PLA, AND, ORA or EOR,
\* with v the byte left in the destination register, Zero is set iff v = 0,
\* Negative is set iff bit 7 of v is set, and the other six flags are what
\* they were before the instruction.
C6_ZeroNegativeRule ==
    (Stepped /\ last.data \in ZNOps) =>
        /\ FlagContains(cpu.status, ZERO) = (ZNDestination(last.data) = 0)
        /\ FlagContains(cpu.status, NEGATIVE) = (BitAnd(ZNDestination(last.data), \h80) # 0)
        /\ OtherFlags(cpu.status) = OtherFlags(last.before.status)
\* LDA ($20),Y has loaded 0x00 over 0xFF, with Carry and Overflow set before:
\* Zero is now set and Negative cleared
C6_Witness ==
    /\ Stepped /\ last.data = \hB1
    /\ last.before.register_a = \hFF /\ FlagContains(last.before.status, NEGATIVE)
    /\ FlagContains(last.before.status, CARRY) /\ FlagContains(last.before.status, OVERFLOW)
    /\ LastOperand = \h00 /\ cpu.register_a = \h00
    /\ FlagContains(cpu.status, ZERO) /\ ~FlagContains(cpu.status, NEGATIVE)

-----------------------------------------------------------------------------
(* The stack: PHA and PLA.                                                  *)

\* the i-th byte a program pushes
PushValue(i) == (17 * i) % 256
RECURSIVE Pushes(_), Pulls(_)
Pushes(n) == IF n = 0 THEN <<>> ELSE Pushes(n - 1) \o <<\hA9, PushValue(n), \h48>>
Pulls(n) == IF n = 0 THEN <<>> ELSE Pulls(n - 1) \o <<\h68>>
StackStarts == {\h00, \h01, \hFD, \hFF}
StackPrograms ==
    \* LDX #s; TXS; n times LDA #v; PHA; n times PLA
    { <<\hA2, s, \h9A>> \o Pushes(n) \o Pulls(n) : s \in StackStarts, n \in 1 .. MaxPush }
      \* LDX #0; TXS; LDX #0; 256 times (TXA; PHA; INX); LDY #0; 256 times (PLA; INY)
      \cup { <<\hA2, \h00, \h9A, \hA2, \h00, \h8A, \h48, \hE8, \hD0, \hFB,
               \hA0, \h00, \h68, \hC8, \hD0, \hFC>> }

NextStack ==
    \/ RunAny(StackPrograms)
    \/ Step

SpecStack == InitCpu /\ [][NextStack]_vars

\* an instruction with this opcode completes in this step
Executes(op) == last'.op = "step" /\ panic' = "none" /\ last'.data = op
\* RAM cells other than i are left alone
OnlyCellChanged(i) ==
    \A j \in (DOMAIN bus.vram) \cup (DOMAIN bus'.vram) :
        j # i => ArrGet(bus'.vram, j) = ArrGet(bus.vram, j)

\* C10: PHA writes the accumulator at 0x0100 + SP and nothing else, then
\* decrements SP modulo 256; PLA increments SP modulo 256, then reads
\* 0x0100 + SP; a PLA after pushes returns the byte pushed last and not yet
\* pulled; after any run of up to 256 pushes and the pulls that follow, SP is
\* its starting value minus the number of bytes still pushed, modulo 256.
C10_StackLifo ==
    [][ /\ Executes(\h48) =>
               /\ ArrGet(bus'.vram, STACK_ADDR + cpu.stack_ptr) = cpu.register_a
               /\ OnlyCellChanged(STACK_ADDR + cpu.stack_ptr)
               /\ cpu'.stack_ptr = (cpu.stack_ptr + 255) % 256
        /\ Executes(\h68) =>
               /\ cpu'.stack_ptr = (cpu.stack_ptr + 1) % 256
               /\ cpu'.register_a = ArrGet(bus.vram, STACK_ADDR + cpu'.stack_ptr)
               /\ bus'.vram = bus.vram
               /\ pushed.vals # <<>> => cpu'.register_a = pushed.vals[Len(pushed.vals)]
        /\ (Executes(\h48) \/ Executes(\h68)) =>
               cpu'.stack_ptr = (pushed'.base + 256 - Len(pushed'.vals)) % 256
      ]_vars
\* from SP = 0x00, 256 bytes 0x00..0xFF were pushed and then pulled: the last
\* pull has returned the first byte pushed, and SP is 0x00 again
C10_Witness ==
    /\ Stepped /\ last.data = \h68
    /\ pushed = [base |-> \h00, vals |-> <<>>]
    /\ cpu.register_y = \hFF /\ cpu.register_a = \h00 /\ cpu.stack_ptr = \h00
    /\ last.before.stack_ptr = \hFF /\ last.before.register_a = \h01

-----------------------------------------------------------------------------
(* Control flow: subroutine calls and branches.                            *)

\* a cartridge whose PRG ROM holds `bytes` from CPU address `at` on
PatchPrg(rom, at, bytes) ==
    [rom EXCEPT !.prg_rom.patch =
        [i \in { at - ROM_START + k - 1 : k \in 1 .. Len(bytes) } |-> bytes[i - (at - ROM_START) + 1]]
            @@ rom.prg_rom.patch]

\* the opcodes of the eight branches, in the order BPL BMI BVC BVS BCC BCS BNE BEQ
BranchOpSeq == <<\h10, \h30, \h50, \h70, \h90, \hB0, \hD0, \hF0>>
BranchOps == { BranchOpSeq[k] : k \in 1 .. 8 }
\* the condition each branch tests (the arms of the run loop)
BranchCondition(op, status) ==
    CASE op = \h10 -> ~FlagContains(status, NEGATIVE)
      [] op = \h30 -> FlagContains(status, NEGATIVE)
      [] op = \h50 -> ~FlagContains(status, OVERFLOW)
      [] op = \h70 -> FlagContains(status, OVERFLOW)
      [] op = \h90 -> ~FlagContains(status, CARRY)
      [] op = \hB0 -> FlagContains(status, CARRY)
      [] op = \hD0 -> ~FlagContains(status, ZERO)
      [] op = \hF0 -> FlagContains(status, ZERO)

\* test_rom with code at the top of the PRG ROM: a BRK at 0xFF82, the eight
\* branches with displacement +127 at 0xFFE0, 0xFFE2, .., and JSR $0700 in
\* the last three bytes
BranchTable ==
    <<\h10, \h7F, \h30, \h7F, \h50, \h7F, \h70, \h7F, \h90, \h7F, \hB0, \h7F, \hD0, \h7F, \hF0, \h7F>>
FlowRom ==
    PatchPrg(PatchPrg(PatchPrg(TestRom, \hFF82, <<\h00>>), \hFFE0, BranchTable),
             \hFFFD, <<\h20, \h00, \h07>>)

\* programs with subroutine calls
JsrPrograms ==
    {   \* JSR $0604; BRK; RTS
        <<\h20, \h04, \h06, \h00, \h60>>,
        \* JSR $0604; BRK; LDA #$5A; PHA; PLA; RTS
        <<\h20, \h04, \h06, \h00, \hA9, \h5A, \h48, \h68, \h60>>,
        \* JSR $0604; BRK; JSR $0608; RTS; RTS
        <<\h20, \h04, \h06, \h00, \h20, \h08, \h06, \h60, \h60>>,
        \* JSR $0601, whose target is the address of its own operand
        <<\h20, \h01, \h06, \h60>>,
        \* JSR $0604; BRK; PLA; RTS: the subroutine leaves one byte less on the stack
        <<\h20, \h04, \h06, \h00, \h68, \h60>>,
        \* JSR $0604; BRK; PLA; LDA #$10; PHA; RTS: the subroutine replaces the low byte of the return address
        <<\h20, \h04, \h06, \h00, \h68, \hA9, \h10, \h48, \h60>>,
        \* LDA #$60; STA $0700; JMP $FFFD: the JSR in the last three bytes of the ROM
        <<\hA9, \h60, \h8D, \h00, \h07, \h4C, \hFD, \hFF>> }
    \cup
        \* LDX #s; TXS; JSR $0607; BRK; RTS
    { <<\hA2, s, \h9A, \h20, \h07, \h06, \h00, \h60>> : s \in {\h00, \h01, \hFD, \hFF} }

\* the status bytes the branch programs pull, and the displacements they use
BranchStatus == {\h00, \hFF}
BranchDisplacements == {\h00, \h01, \h7F, \h80, \hFE, \hFF}
BranchPrograms ==
        \* LDA #p; PHA; PLP; Bxx d
    { <<\hA9, p, \h48, \h28, op, d>> : p \in BranchStatus, op \in BranchOps, d \in BranchDisplacements }
    \cup
        \* LDA #p; PHA; PLP; JMP to the branch of the table at the top of the ROM
    { <<\hA9, p, \h48, \h28, \h4C, \hE0 + 2 * (k - 1), \hFF>> : p \in BranchStatus, k \in 1 .. 8 }
    \cup
        \* LDA #op; STA $00; LDA #$80; STA $01; LDA #p; PHA; PLP; JMP $0000
    { <<\hA9, op, \h85, \h00, \hA9, \h80, \h85, \h01, \hA9, p, \h48, \h28, \h4C, \h00, \h00>> :
          p \in BranchStatus, op \in BranchOps }

InitFlow == InitWith({FlowRom}, BOOLEAN)
NextFlow ==
    \/ RunAny(JsrPrograms \cup BranchPrograms)
    \/ Step
SpecFlow == InitFlow /\ [][NextFlow]_vars

\* the byte a read of `addr` returns
Peek(b, addr) == BusMemRead(b, addr).v
\* the latest JSR not yet returned from
TopCall == calls[Len(calls)]
\* the stack is as that JSR left it: the pointer, and the return address on it
StackAsAtEntry ==
    /\ cpu.stack_ptr = (TopCall.sp + 254) % 256
    /\ ArrGet(bus.vram, STACK_ADDR + TopCall.sp) = ((TopCall.at + 2) % 65536) \div 256
    /\ ArrGet(bus.vram, STACK_ADDR + ((TopCall.sp + 255) % 256)) = ((TopCall.at + 2) % 256)

\* C11: a JSR at P pushes P + 2, high byte first, and goes to its target;
\* an RTS pops the low byte first and adds one; an RTS that finds the stack
\* as the JSR at P left it sets the program counter to P + 3 and the stack
\* pointer to its value before the JSR.
C11_JsrRtsRoundTrip ==
    [][ /\ Executes(\h20) =>
               /\ ArrGet(bus'.vram, STACK_ADDR + cpu.stack_ptr)
                      = ((cpu.program_counter + 2) % 65536) \div 256
               /\ ArrGet(bus'.vram, STACK_ADDR + ((cpu.stack_ptr + 255) % 256))
                      = ((cpu.program_counter + 2) % 256)
               /\ cpu'.stack_ptr = (cpu.stack_ptr + 254) % 256
               /\ Let(FromLeBytes(Peek(bus', (cpu.program_counter + 1) % 65536),
                                  Peek(bus', (cpu.program_counter + 2) % 65536)), LAMBDA target :
                      cpu'.program_counter =
                          IF target = (cpu.program_counter + 1) % 65536
                          THEN (cpu.program_counter + 3) % 65536
                          ELSE target)
        /\ Executes(\h60) =>
               /\ cpu'.program_counter =
                      WrapAdd16(FromLeBytes(ArrGet(bus.vram, STACK_ADDR + ((cpu.stack_ptr + 1) % 256)),
                                            ArrGet(bus.vram, STACK_ADDR + ((cpu.stack_ptr + 2) % 256))), 1)
               /\ cpu'.stack_ptr = (cpu.stack_ptr + 2) % 256
               /\ (calls # <<>> /\ StackAsAtEntry) =>
                      /\ cpu'.program_counter = (TopCall.at + 3) % 65536
                      /\ cpu'.stack_ptr = TopCall.sp
      ]_vars
\* the JSR at 0xFFFD has returned, from a subroutine at 0x0700, to 0x0000
C11_Witness ==
    /\ Stepped /\ last.data = \h60 /\ last.addr = \h0700
    /\ calls = <<>>
    /\ cpu.program_counter = \h0000 /\ cpu.stack_ptr = STACK_PTR_INIT
    /\ ArrGet(bus.vram, STACK_ADDR + STACK_PTR_INIT) = \hFF
    /\ ArrGet(bus.vram, STACK_ADDR + STACK_PTR_INIT - 1) = \hFF

\* a branch completes in this step
ExecutesBranch == \E op \in BranchOps : Executes(op)
\* the displacement byte of the branch at the program counter
BranchOperand == Peek(bus, (cpu.program_counter + 1) % 65536)
\* where a taken branch at the program counter lands on a 6502
BranchTarget == (cpu.program_counter + 2 + SignExtend(BranchOperand)) % 65536
\* the registers and flags are left alone, the program counter apart
SameRegisters ==
    /\ cpu'.register_a = cpu.register_a
    /\ cpu'.register_x = cpu.register_x
    /\ cpu'.register_y = cpu.register_y
    /\ cpu'.status = cpu.status
    /\ cpu'.stack_ptr = cpu.stack_ptr

\* C12: a branch at P whose condition holds leaves the program counter at
\* (P + 2 + d) mod 2^16 for its signed displacement d, one whose condition
\* does not hold leaves it at P + 2; a branch changes no register, flag or
\* memory cell.
C12_Branches ==
    [][ ExecutesBranch =>
            /\ cpu'.program_counter =
                   IF BranchCondition(last'.data, cpu.status)
                   THEN BranchTarget
                   ELSE (cpu.program_counter + 2) % 65536
            /\ SameRegisters
            /\ bus' = bus
      ]_vars
\* C12, as the code has it: the same, except that a taken branch with
\* displacement -1 ends at P + 2 instead of P + 1.
C12_BranchesAsCoded ==
    [][ ExecutesBranch =>
            /\ cpu'.program_counter =
                   IF BranchCondition(last'.data, cpu.status) /\ BranchOperand # \hFF
                   THEN BranchTarget
                   ELSE (cpu.program_counter + 2) % 65536
            /\ SameRegisters
            /\ bus' = bus
      ]_vars
\* BNE with displacement -1 at 0x0604 was taken (Zero is clear) and the
\* program counter is 0x0606
C12_Witness ==
    /\ Stepped /\ last.data = \hD0 /\ last.addr = \h0604
    /\ ~FlagContains(cpu.status, ZERO)
    /\ Peek(bus, \h0605) = \hFF
    /\ cpu.program_counter = \h0606

-----------------------------------------------------------------------------
(* The run loop: how it ends.                                              *)

\* straight-line programs: those of the tests of cpu.rs, one that is only a
\* BRK, two that end in the zeroes of the RAM after them, loads and
\* transfers, and pushes followed by pulls
LinePrograms ==
    { <<\hA9, \hC0, \hAA, \hE8, \h00>>,            \* test_5_ops_working_together
      <<\hA2, \hFF, \hE8, \hE8, \h00>>,            \* test_inx_overflow
      <<\hA9, \h0A, \hAA, \h00>>,                  \* LDA #10; TAX; BRK
      <<\h00>>,
      <<>>,
      <<\hA9, \h01>> }
    \cup { <<\hA9, a, \hAA, \hE8, \hC8, \h00>> : a \in AluEdge }    \* LDA #a; TAX; INX; INY; BRK
    \cup { <<\hA2, s, \h9A>> \o Pushes(n) \o Pulls(n) \o <<\h00>> :
               s \in StackStarts, n \in 1 .. MaxPush }

NextLine ==
    \/ RunAny(LinePrograms)
    \/ Step
\* the loop of run_with_callback goes on to its next pass as long as it has
\* neither returned nor panicked
SpecLine == InitCpu /\ [][NextLine]_vars /\ WF_vars(Step)

\* the machine about to fetch `opcode` (its operand bytes as the RAM has them)
AboutToFetch(opcode) ==
    Machine([cpu EXCEPT !.program_counter = \h0010],
            [bus EXCEPT !.vram = ArrSet(bus.vram, \h0010, opcode)])
\* the loop has returned: it neither runs nor has panicked
Returned == ~running /\ panic = "none"

\* C13: run_with_callback returns on the pass that fetches 0x00 and on no
\* other; that pass leaves A, X, Y, the flags, the stack pointer and all
\* memory as they were and the program counter one past the BRK; and a
\* straight-line program that leads to a BRK ends with the loop returning
\* there.
C13_RunLoopTermination ==
    /\ [][ /\ (last'.op = "step" /\ panic' = "none") =>
                  (~running' <=> last'.data = \h00)
           /\ Executes(\h00) =>
                  /\ SameRegisters
                  /\ bus' = bus
                  /\ cpu'.program_counter = (cpu.program_counter + 1) % 65536
           /\ last.op = "new" =>
                  /\ RunLoopBody(AboutToFetch(\h00)).returned
                  /\ \A opcode \in 1 .. 255 : ~RunLoopBody(AboutToFetch(opcode)).returned
         ]_vars
    /\ (running ~> (Returned /\ last.op = "step" /\ last.data = \h00))
\* test_5_ops_working_together has ended: the loop returned on the BRK at
\* 0x0604 with 0xC1 in X
C13_Witness ==
    /\ Returned /\ last.op = "step" /\ last.data = \h00 /\ last.addr = \h0604
    /\ cpu.register_x = \hC1 /\ cpu.register_a = \hC0
    /\ cpu.program_counter = \h0605

-----------------------------------------------------------------------------
(* The CPU and the PPU's clock.                                            *)

\* the position of the PPU's clock
Clock(ppu) == <<ppu.scan_line, ppu.cycles>>
\* a pass of the run loop completes in this step
ExecutesAny == last'.op = "step" /\ panic' = "none"

\* C14: every CPU step advances the PPU once, by three times the cycles of
\* its opcode, and a pending NMI is consumed before the next fetch.
C14_CpuPpuCoupling ==
    [][ ExecutesAny =>
            /\ Clock(bus'.ppu) = Clock(PPUTick(bus.ppu, 3 * OpCodeCycles(last'.data)).ppu)
            /\ bus.ppu.nmi # "None" => bus'.ppu.nmi = "None"
      ]_vars
\* C14, as the code has it: a CPU step leaves the PPU's clock and its NMI
\* request where they were.
C14_ClockUntouched ==
    [][ ExecutesAny =>
            /\ Clock(bus'.ppu) = Clock(bus.ppu)
            /\ bus'.ppu.nmi = bus.ppu.nmi
      ]_vars
\* test_5_ops_working_together has run its four instructions and its BRK,
\* 15 CPU cycles, and the PPU's clock still stands at zero
C14_Witness ==
    /\ Returned /\ last.op = "step" /\ last.addr = \h0604
    /\ cpu.register_x = \hC1
    /\ Clock(bus.ppu) = <<0, 0>>

-----------------------------------------------------------------------------
(* The PPU's clock: vblank, the NMI request, the end of the frame.         *)

\* the cycle counts handed to tick (a tick takes a u8), and the bytes
\* written to Control: generate-NMI clear and set
TickCycles == {0, 31, 124, 248}
ControlBytes == {\h00, \h80}

NextClock ==
    \/ \E cycles \in TickCycles : Tick(cycles)
    \/ PollNmi
    \/ \E d \in ControlBytes : PpuWrite(\h2000, d)
    \/ PpuRead(\h2002)
SpecClock == InitCpu /\ [][NextClock]_vars

InVblank(ppu) == StatusIsInVblank(ppu.status)
\* this step is a call of tick, of poll_nmi, a read of Status
IsTick == last'.op = "tick"
IsPoll == last'.op = "poll_nmi"
IsStatusRead == last'.op = "ppu_read" /\ last'.addr = \h2002 /\ panic' = "none"
\* this tick moves the scan line to 241
EntersVblank ==
    /\ IsTick
    /\ bus.ppu.scan_line = SCAN_LINE_INTERRUPT - 1
    /\ bus'.ppu.scan_line = SCAN_LINE_INTERRUPT
\* this tick ends a scan line
EndsScanLine == IsTick /\ bus.ppu.cycles + last'.data >= CLOCK_CYCLES_PER_SCAN_LINE

\* C15: from a fresh PPU, whatever the cycle counts of the ticks, in-vblank
\* is set by the tick that moves the scan line to 241 and not before; that
\* tick latches an NMI request when generate-NMI is set and none when it is
\* clear, and no other tick latches one; poll_nmi returns the request and
\* clears it, so that further polls return none.
C15_VblankEntry ==
    [][ /\ InVblank(bus.ppu) => bus.ppu.scan_line >= SCAN_LINE_INTERRUPT
        /\ IsTick =>
               /\ (~InVblank(bus.ppu) /\ InVblank(bus'.ppu)) => EntersVblank
               /\ EntersVblank <=>
                      (bus.ppu.scan_line = SCAN_LINE_INTERRUPT - 1 /\ EndsScanLine)
               /\ EntersVblank =>
                      /\ InVblank(bus'.ppu)
                      /\ bus'.ppu.nmi = IF ControlGenerateNmi(bus.ppu.control)
                                        THEN "Some(true)" ELSE bus.ppu.nmi
               /\ ~EntersVblank => bus'.ppu.nmi \in {bus.ppu.nmi, "None"}
        /\ IsPoll =>
               /\ last'.ret = bus.ppu.nmi
               /\ bus'.ppu.nmi = "None"
               /\ (last.op = "poll_nmi" => last'.ret = "None")
      ]_vars
\* the scan line is 241, in-vblank is set, and a poll has just returned the
\* request latched on entry
C15_Witness ==
    /\ last.op = "poll_nmi" /\ last.ret = "Some(true)"
    /\ bus.ppu.scan_line = SCAN_LINE_INTERRUPT
    /\ InVblank(bus.ppu)
    /\ ControlGenerateNmi(bus.ppu.control)
    /\ bus.ppu.nmi = "None"

\* C16: tick returns true exactly on the calls in which the scan line would
\* reach 262; on those the scan line is reset to 0 and the NMI request,
\* sprite-0-hit and in-vblank are cleared; on all others it returns false.
C16_FrameBoundary ==
    [][ IsTick =>
            /\ (last'.ret = 1) <=>
                   (EndsScanLine /\ bus.ppu.scan_line + 1 = SCAN_LINES_PER_FRAME)
            /\ last'.ret \in {0, 1}
            /\ last'.ret = 1 =>
                   /\ bus'.ppu.scan_line = 0
                   /\ bus'.ppu.nmi = "None"
                   /\ ~FlagContains(bus'.ppu.status, SPRITE_0_HIT)
                   /\ ~InVblank(bus'.ppu)
            /\ bus'.ppu.scan_line < SCAN_LINES_PER_FRAME
      ]_vars
\* a tick has just ended the frame while generate-NMI is set
C16_Witness ==
    /\ last.op = "tick" /\ last.ret = 1
    /\ bus.ppu.scan_line = 0 /\ bus.ppu.cycles = 31
    /\ ControlGenerateNmi(bus.ppu.control)
    /\ bus.ppu.nmi = "None" /\ ~InVblank(bus.ppu)

\* the PPU as it is, with `status` in its Status register
WithStatus(status) == [bus.ppu EXCEPT !.status = status]

\* C17: a read of Status returns the bits as they were before it; after it
\* in-vblank is clear and the other bits are as before; of two reads in a
\* row the second returns bit 7 clear.
C17_StatusRead ==
    [][ /\ IsStatusRead =>
               /\ last'.ret = bus.ppu.status
               /\ bus'.ppu.status = FlagRemove(bus.ppu.status, IN_VBLANK)
               /\ (last.op = "ppu_read" /\ last.addr = \h2002) =>
                      ~FlagContains(last'.ret, IN_VBLANK)
        /\ last.op = "new" =>
               \A status \in Byte :
                   /\ ReadStatus(WithStatus(status)).v = status
                   /\ ReadStatus(WithStatus(status)).ppu.status = status % 128
                   /\ ReadStatus(ReadStatus(WithStatus(status)).ppu).v = status % 128
      ]_vars
\* in vblank, a read of Status has returned bit 7 set and in-vblank is clear
C17_Witness ==
    /\ last.op = "ppu_read" /\ last.addr = \h2002 /\ last.ret = IN_VBLANK
    /\ bus.ppu.scan_line >= SCAN_LINE_INTERRUPT
    /\ ~InVblank(bus.ppu)

-----------------------------------------------------------------------------
(* The PPU's write latches: Address, Scroll, and the read of Status.       *)

\* the bytes written to Address and Scroll
RegBytes == {\h00, \h12, \h3F, \h40, \hFF}

NextRegs ==
    \/ \E d \in RegBytes : PpuWrite(\h2006, d)
    \/ \E d \in RegBytes : PpuWrite(\h2005, d)
    \/ PpuRead(\h2002)
SpecRegs == InitCpu /\ [][NextRegs]_vars

\* this step is a completed write of d to the register
IsWrite(reg) == last'.op = "ppu_write" /\ last'.addr = reg /\ panic' = "none"
\* the VRAM pointer
Pointer(ppu) == AddressRegisterGet(ppu.addr)

\* C18: with no read of Status since construction and an even number of
\* Address writes so far, the writes h then l to Address leave the pointer
\* at ((h << 8) | l) & 0x3FFF.
C18_AddressWritePair ==
    [][ ( /\ IsWrite(\h2006)
          /\ last.op = "ppu_write" /\ last.addr = \h2006
          /\ ~hist.status_read /\ hist.addr_writes = 1 ) =>
            Pointer(bus'.ppu) = BitAnd(last.data * 256 + last'.data, \h3FFF)
      ]_vars
\* the Address writes so far came in pairs and the last pair, 0x3F or 0xFF
\* then 0x12, has left the pointer at 0x3F12
C18_Witness ==
    /\ last.op = "ppu_write" /\ last.addr = \h2006 /\ last.data = \h12
    /\ ~hist.status_read /\ hist.addr_writes = 0
    /\ Pointer(bus.ppu) = \h3F12
    /\ bus.ppu.scroll = ScrollRegisterNew

\* this step is the first write to the register since a read of Status
FirstAddressWriteSinceStatus == IsWrite(\h2006) /\ hist.status_read /\ hist.addr_writes = 0
FirstScrollWriteSinceStatus == IsWrite(\h2005) /\ hist.status_read /\ hist.scroll_writes = 0
\* a read of Status was the last access
AfterStatusRead == last.op = "ppu_read" /\ last.addr = \h2002 /\ panic = "none"

\* C19: after a read of Status, whatever writes came before it, the next
\* write to Address is the high byte and the next write to Scroll is scroll
\* X: the latches are as on a fresh PPU.
C19_LatchReset ==
    [][ /\ FirstAddressWriteSinceStatus =>
               /\ bus'.ppu.addr.hi = BitAnd(last'.data, \h3F)
               /\ bus'.ppu.addr.lo = bus.ppu.addr.lo
        /\ FirstScrollWriteSinceStatus =>
               /\ bus'.ppu.scroll.scroll_x = last'.data
               /\ bus'.ppu.scroll.scroll_y = bus.ppu.scroll.scroll_y
        /\ AfterStatusRead =>
               /\ bus.ppu.addr.address_latch = AddressRegisterNew.address_latch
               /\ bus.ppu.scroll.address_latch = ScrollRegisterNew.address_latch
      ]_vars
\* C19, as the code has it: after a read of Status the next write to
\* Address is the low byte and the next write to Scroll is scroll Y; the
\* Scroll latch is as on a fresh PPU, the Address latch is not.
C19_LatchResetAsCoded ==
    [][ /\ FirstAddressWriteSinceStatus =>
               /\ bus'.ppu.addr.lo = last'.data
               /\ bus'.ppu.addr.hi = bus.ppu.addr.hi
        /\ FirstScrollWriteSinceStatus =>
               /\ bus'.ppu.scroll.scroll_y = last'.data
               /\ bus'.ppu.scroll.scroll_x = bus.ppu.scroll.scroll_x
        /\ AfterStatusRead =>
               /\ bus.ppu.addr.address_latch # AddressRegisterNew.address_latch
               /\ bus.ppu.scroll.address_latch = ScrollRegisterNew.address_latch
      ]_vars
\* on a fresh PPU Status was read and 0x12 written to Address: the pointer is 0x0012
C19_Witness ==
    /\ last.op = "ppu_write" /\ last.addr = \h2006 /\ last.data = \h12
    /\ hist.status_read /\ hist.addr_writes = 1 /\ hist.scroll_writes = 0
    /\ Pointer(bus.ppu) = \h0012
    /\ bus.ppu.scroll = ScrollRegisterNew

\* this step is a write to Scroll with no read of Status since construction:
\* the first, third, .. such write, or the second, fourth, ..
OddScrollWrite == IsWrite(\h2005) /\ ~hist.status_read /\ hist.scroll_writes = 0
EvenScrollWrite == IsWrite(\h2005) /\ ~hist.status_read /\ hist.scroll_writes = 1

\* C20: on a fresh PPU the writes a then b to Scroll leave scroll X = a and
\* scroll Y = b, and a third write goes to scroll X again.
C20_ScrollWriteOrder ==
    [][ /\ OddScrollWrite =>
               /\ bus'.ppu.scroll.scroll_x = last'.data
               /\ bus'.ppu.scroll.scroll_y = bus.ppu.scroll.scroll_y
        /\ EvenScrollWrite =>
               /\ bus'.ppu.scroll.scroll_y = last'.data
               /\ bus'.ppu.scroll.scroll_x = bus.ppu.scroll.scroll_x
      ]_vars
\* C20, as the code has it: the first write goes to scroll Y, the second to
\* scroll X, the third to scroll Y again.
C20_ScrollWriteOrderAsCoded ==
    [][ /\ OddScrollWrite =>
               /\ bus'.ppu.scroll.scroll_y = last'.data
               /\ bus'.ppu.scroll.scroll_x = bus.ppu.scroll.scroll_x
        /\ EvenScrollWrite =>
               /\ bus'.ppu.scroll.scroll_x = last'.data
               /\ bus'.ppu.scroll.scroll_y = bus.ppu.scroll.scroll_y
      ]_vars
\* on a fresh PPU 0x12 then 0x40 were written to Scroll: scroll Y is 0x12 and
\* scroll X is 0x40
C20_Witness ==
    /\ last.op = "ppu_write" /\ last.addr = \h2005 /\ last.data = \h40
    /\ ~hist.status_read /\ hist.scroll_writes = 0 /\ hist.addr_writes = 0
    /\ bus.ppu.scroll.scroll_y = \h12 /\ bus.ppu.scroll.scroll_x = \h40
    /\ bus.ppu.addr = AddressRegisterNew

-----------------------------------------------------------------------------
(* The PPU's data port: 0x2006 sets the pointer, 0x2007 reads and writes.  *)

MaxData == 6       \* register accesses per session on the data port

\* cartridges with horizontal and with vertical mirroring
DataRoms == { RomNew(2, 1, \h00), RomNew(2, 1, \h01) }
\* the bytes written to Address (high and low), to Data and to Control
DataAddrBytes == {\h00, \h1F, \h20, \h24, \h28, \h2C, \h2F, \hFF}
DataBytes == {\h5A}
DataControlBytes == {\h04}

InitData == InitWith(DataRoms, {FALSE})
NextData ==
    /\ nops < MaxData
    /\ nops' = nops + 1
    /\ \/ \E d \in DataAddrBytes : PpuWriteOp(\h2006, d)
       \/ \E d \in DataBytes : PpuWriteOp(\h2007, d)
       \/ \E d \in DataControlBytes : PpuWriteOp(\h2000, d)
       \/ PpuReadOp(\h2007)
SpecData == InitData /\ [][NextData]_vars

\* this step is a read of Data, completed or not
IsDataRead == last'.op = "ppu_read" /\ last'.addr = \h2007
\* the latest step was a completed read of Data
WasDataRead == last.op = "ppu_read" /\ last.addr = \h2007 /\ panic = "none"
\* the byte a pointer p <= 0x2FFF addresses
ByteAt(ppu, p) ==
    IF p <= CHR_ROM_END_ADDR THEN RomGetChr(ppu.chr_rom, p)
    ELSE ArrGet(ppu.vram, MirrorVram(ppu, p))
\* the pointer before the latest increment by 1
PointerBefore(ppu) == (Pointer(ppu) + 16383) % 16384
\* this read of Data returns what the buffer held and buffers the byte at
\* the pointer
ReadIsBuffered ==
    /\ panic' = "none"
    /\ last'.ret = bus.ppu.data_buffer
    /\ bus'.ppu.data_buffer = ByteAt(bus.ppu, Pointer(bus.ppu))
\* this read of Data follows a read of Data at a pointer p <= 0x2FFF, with
\* increment 1
SecondRead ==
    /\ WasDataRead /\ IsDataRead
    /\ ControlGetVramJumpDist(bus.ppu.control) = 1
    /\ PointerBefore(bus.ppu) <= NAME_TABLE_END_ADDR

\* C21: a read of 0x2007 with the pointer p in 0x0000..=0x2FFF returns the
\* byte the read buffer held (0 on a fresh PPU) and leaves in the buffer the
\* byte p addresses (chr_rom[p], or the mirrored VRAM cell); the second of two
\* consecutive reads with increment 1 returns the byte at the first one's p.
C21_BufferedRead ==
    [][ /\ last.op = "new" => bus.ppu.data_buffer = 0
        /\ (IsDataRead /\ Pointer(bus.ppu) <= NAME_TABLE_END_ADDR) => ReadIsBuffered
        /\ SecondRead =>
               /\ panic' = "none"
               /\ last'.ret = ByteAt(bus.ppu, PointerBefore(bus.ppu))
      ]_vars
\* C21, as the code has it: the second read returns the byte at p unless it
\* is itself a read at 0x3000, which faults.
C21_BufferedReadAsCoded ==
    [][ /\ last.op = "new" => bus.ppu.data_buffer = 0
        /\ (IsDataRead /\ Pointer(bus.ppu) <= NAME_TABLE_END_ADDR) => ReadIsBuffered
        /\ (SecondRead /\ PointerBefore(bus.ppu) < NAME_TABLE_END_ADDR) =>
               /\ panic' = "none"
               /\ last'.ret = ByteAt(bus.ppu, PointerBefore(bus.ppu))
        /\ (SecondRead /\ PointerBefore(bus.ppu) = NAME_TABLE_END_ADDR) =>
               panic' # "none"
      ]_vars
\* 0x5A was written at 0x2000 and the pointer set to 0x2000 again: the
\* second read in a row has returned 0x5A
C21_Witness ==
    /\ WasDataRead /\ last.ret = \h5A
    /\ Pointer(bus.ppu) = \h2002
    /\ ControlGetVramJumpDist(bus.ppu.control) = 1
    /\ ArrGet(bus.ppu.vram, 0) = \h5A
\* the pointer was set to 0x2FFF and Data read twice: the second read faulted
C21_SecondReadFaults ==
    /\ last.op = "ppu_read" /\ last.addr = \h2007 /\ panic # "none"
    /\ Pointer(bus.ppu) = \h3001

\* the PPU with its pointer at q
PointAt(ppu, q) == [ppu EXCEPT !.addr.hi = q \div 256, !.addr.lo = q % 256]
\* what a read of Data with the pointer at q leaves in the read buffer
ReadBackAt(ppu, q) == ReadPpuData(PointAt(ppu, q)).ppu.data_buffer
\* the PPU after a write of d to Data with the pointer at q
WrittenAt(ppu, q, d) == WritePpuData(PointAt(ppu, q), d).ppu
\* the same offset in the nametable next to q's (0x400 away) and in the one
\* two away (0x800 away)
Beside(q) == IF (q \div NAME_TABLE_SIZE) % 2 = 0 THEN q + NAME_TABLE_SIZE ELSE q - NAME_TABLE_SIZE
Across(q) == IF (q \div (2 * NAME_TABLE_SIZE)) % 2 = 0 THEN q + 2 * NAME_TABLE_SIZE
             ELSE q - 2 * NAME_TABLE_SIZE
\* the address that names the same cell as q, and the one that names another
\* cell, under the cartridge's mirroring
Alias(ppu, q) == IF ppu.mirror_mode = "HORIZONTAL" THEN Beside(q) ELSE Across(q)
Apart(ppu, q) == IF ppu.mirror_mode = "HORIZONTAL" THEN Across(q) ELSE Beside(q)
\* before is the PPU, after is the PPU once d was written at q: d is read back
\* at q and at its alias, and the cell apart reads as it did before
MirroredWrite(before, after, q, d) ==
    /\ ReadBackAt(after, q) = d
    /\ ReadBackAt(after, Alias(before, q)) = d
    /\ ReadBackAt(after, Apart(before, q)) = ReadBackAt(before, Apart(before, q))
    /\ ReadBackAt(after, Beside(Across(q))) = ReadBackAt(before, Beside(Across(q)))
\* this step is a completed write of Data with the pointer in a nametable
IsNametableWrite ==
    /\ IsWrite(\h2007)
    /\ Pointer(bus.ppu) >= NAME_TABLE_START_ADDR /\ Pointer(bus.ppu) <= NAME_TABLE_END_ADDR

\* C22: with horizontal mirroring a byte written through 0x2007 at 0x2000 + k
\* is read back at 0x2400 + k and one written at 0x2800 + k at 0x2C00 + k,
\* while 0x2000 + k and 0x2800 + k are distinct cells; with vertical mirroring
\* 0x2000 + k aliases 0x2800 + k and 0x2400 + k aliases 0x2C00 + k, while
\* 0x2000 + k and 0x2400 + k are distinct; for every k < 0x400, reads and
\* writes using the same mapping.
C22_NametableMirroring ==
    [][ /\ last.op = "new" =>
               \A q \in NAME_TABLE_START_ADDR .. NAME_TABLE_END_ADDR :
                   /\ MirroredWrite(bus.ppu, WrittenAt(bus.ppu, q, \h5A), q, \h5A)
                   /\ ReadBackAt(WrittenAt(bus.ppu, q, \h5A), Apart(bus.ppu, q)) = 0
        /\ IsNametableWrite =>
               MirroredWrite(bus.ppu, bus'.ppu, Pointer(bus.ppu), last'.data)
      ]_vars
\* horizontal mirroring: 0x5A was written at 0x2000 and the second read of
\* Data in a row from 0x2400 has returned it
C22_Witness ==
    /\ bus.ppu.mirror_mode = "HORIZONTAL"
    /\ WasDataRead /\ last.ret = \h5A
    /\ Pointer(bus.ppu) = \h2402
    /\ DOMAIN bus.ppu.vram = {0}
\* vertical mirroring: 0x5A was written at 0x2000 and the second read of
\* Data in a row from 0x2800 has returned it
C22_WitnessVertical ==
    /\ bus.ppu.mirror_mode = "VERTICAL"
    /\ WasDataRead /\ last.ret = \h5A
    /\ Pointer(bus.ppu) = \h2802
    /\ DOMAIN bus.ppu.vram = {0}

-----------------------------------------------------------------------------
(* The sprite table: 0x2003 sets its address, 0x2004 reads and writes.     *)

MaxOam == 6        \* register accesses per session on the sprite table

OamAddrBytes == {\h00, \h80, \hFF}
OamBytes == {\h5A, \hA5}

NextOam ==
    /\ nops < MaxOam
    /\ nops' = nops + 1
    /\ \/ \E d \in OamAddrBytes : PpuWriteOp(\h2003, d)
       \/ \E d \in OamBytes : PpuWriteOp(\h2004, d)
       \/ PpuReadOp(\h2004)
SpecOam == InitCpu /\ [][NextOam]_vars

\* this step is a read of OAM data, completed or not
IsOamRead == last'.op = "ppu_read" /\ last'.addr = \h2004
\* the latest step was a completed read of OAM data
WasOamRead == last.op = "ppu_read" /\ last.addr = \h2004 /\ panic = "none"
\* the cell i of the table
OamCell(o, i) == ArrGet(o.data, i)
\* the tables o1 and o2 hold the same bytes, but possibly in the cells of except
SameOamTable(o1, o2, except) ==
    \A i \in (0 .. 255) \ except : OamCell(o1, i) = OamCell(o2, i)

\* C23: a write to 0x2003 sets the OAM address; a write to 0x2004 stores the
\* byte at the current address and then increments the address modulo 256; a
\* read of 0x2004 returns the byte at the current address and changes neither
\* the address nor the table, so consecutive reads return the same byte.
C23_OamAccess ==
    [][ /\ IsWrite(\h2003) =>
               /\ bus'.ppu.oam.addr = last'.data
               /\ SameOamTable(bus.ppu.oam, bus'.ppu.oam, {})
        /\ IsWrite(\h2004) =>
               /\ OamCell(bus'.ppu.oam, bus.ppu.oam.addr) = last'.data
               /\ SameOamTable(bus.ppu.oam, bus'.ppu.oam, {bus.ppu.oam.addr})
               /\ bus'.ppu.oam.addr = (bus.ppu.oam.addr + 1) % 256
        /\ IsOamRead =>
               /\ panic' = "none"
               /\ last'.ret = OamCell(bus.ppu.oam, bus.ppu.oam.addr)
               /\ bus'.ppu.oam.addr = bus.ppu.oam.addr
               /\ SameOamTable(bus.ppu.oam, bus'.ppu.oam, {})
        /\ (WasOamRead /\ IsOamRead) => last'.ret = last.ret
      ]_vars
\* two writes from address 0xFF have wrapped the address to 1, the address
\* was set to 0xFF again and the second read in a row has returned the byte
\* written there
C23_Witness ==
    /\ WasOamRead /\ last.ret = \h5A /\ nops = 6
    /\ bus.ppu.oam.addr = \hFF
    /\ OamCell(bus.ppu.oam, \hFF) = \h5A /\ OamCell(bus.ppu.oam, \h00) = \hA5

-----------------------------------------------------------------------------
(* The write of Control and the NMI request.                                *)

\* this step is a completed write to Control that turns generate-NMI from
\* clear to set while in-vblank is set
EnablesNmiInVblank ==
    /\ IsWrite(\h2000)
    /\ ~ControlGenerateNmi(bus.ppu.control)
    /\ ControlGenerateNmi(last'.data)
    /\ InVblank(bus.ppu)
\* this step is any other completed write to Control
OtherControlWrite == IsWrite(\h2000) /\ ~EnablesNmiInVblank

\* C24: a write to 0x2000 replaces Control with the byte written; it raises
\* an NMI request exactly when it turns generate-NMI from clear to set while
\* in-vblank is set; any other Control write neither raises a request nor
\* discards a pending one.
C24_ControlWrite ==
    [][ /\ IsWrite(\h2000) => bus'.ppu.control = last'.data
        /\ EnablesNmiInVblank => bus'.ppu.nmi = "Some(true)"
        /\ OtherControlWrite => bus'.ppu.nmi = bus.ppu.nmi
      ]_vars
\* C24, as the code has it: the request after a Control write is what update
\* returns, so any other Control write leaves no request, pending or not.
C24_ControlWriteAsCoded ==
    [][ /\ IsWrite(\h2000) => bus'.ppu.control = last'.data
        /\ EnablesNmiInVblank => bus'.ppu.nmi = "Some(true)"
        /\ OtherControlWrite => bus'.ppu.nmi = "None"
      ]_vars
\* in vblank a write of 0x80 to Control has raised a request
C24_Witness ==
    /\ last.op = "ppu_write" /\ last.addr = \h2000 /\ last.data = \h80
    /\ InVblank(bus.ppu)
    /\ bus.ppu.nmi = "Some(true)"

-----------------------------------------------------------------------------
(* The status on the stack: PHP, PLP and RTI.                              *)

\* for every byte v:
\*   LDA #v; PHA; PLP; PHP; PLA
\*   LDA #$06; PHA; LDA #$20; PHA; LDA #v; PHA; RTI      (returns to 0x0620)
FlagPrograms ==
    { <<\hA9, v, \h48, \h28, \h08, \h68>> : v \in Byte }
        \cup { <<\hA9, \h06, \h48, \hA9, \h20, \h48, \hA9, v, \h48, \h40>> : v \in Byte }

NextFlags ==
    \/ RunAny(FlagPrograms)
    \/ Step
SpecFlags == InitCpu /\ [][NextFlags]_vars

\* the byte with Break and Break2 set, resp. with Break clear and Break2 set
WithBreakBits(s) == s + (IF (s \div 16) % 2 = 0 THEN 16 ELSE 0) + (IF (s \div 32) % 2 = 0 THEN 32 ELSE 0)
WithBreak2Only(s) == WithBreakBits(s) - 16
\* the status has Break2 set and Break clear
LiveStatus(s) == (s \div 32) % 2 = 1 /\ (s \div 16) % 2 = 0
\* the byte the next pop returns
TopOfStack == ArrGet(bus.vram, STACK_ADDR + ((cpu.stack_ptr + 1) % 256))

\* C25: PHP pushes a copy of the status with Break and Break2 set and leaves
\* the live status as it was.
C25_PhpPushesCopy ==
    [][ Executes(\h08) =>
            /\ ArrGet(bus'.vram, STACK_ADDR + cpu.stack_ptr) = WithBreakBits(cpu.status)
            /\ OnlyCellChanged(STACK_ADDR + cpu.stack_ptr)
            /\ cpu'.stack_ptr = (cpu.stack_ptr + 255) % 256
            /\ cpu'.status = cpu.status
      ]_vars
\* LDA #$FF; PHA; PLP; PHP has run: the live status is 0xEF, the byte on the
\* stack is 0xFF
C25_Witness ==
    /\ Stepped /\ last.data = \h08
    /\ cpu.status = \hEF
    /\ TopOfStack = \hFF

\* the six flags other than Break and Break2
SixFlags(s) == s - ((s \div 16) % 4) * 16
\* this step is a pass of the run loop that fetched PLP or RTI, completed or not
FetchesPlpOrRti == last'.op = "step" /\ last'.data \in {\h28, \h40}

\* C26: in every state reached from CPU::new or reset by instructions the
\* live status has Break2 set and Break clear; PLP and RTI, for every byte
\* popped, restore the six other flags from it, leave Break clear and Break2
\* set, and never fault.
C26_BreakFlags ==
    [][ /\ LiveStatus(cpu.status) /\ LiveStatus(cpu'.status)
        /\ FetchesPlpOrRti =>
               /\ panic' = "none"
               /\ cpu'.status = WithBreak2Only(TopOfStack)
               /\ SixFlags(cpu'.status) = SixFlags(TopOfStack)
        /\ (Stepped /\ last.data = \h28) =>
               \A opcode \in Byte :
                   LiveStatus(RunLoopBody(AboutToFetch(opcode)).m.cpu.status)
      ]_vars
\* RTI has popped 0xDF: the status is 0xEF and the program counter 0x0620
C26_Witness ==
    /\ Stepped /\ last.data = \h40
    /\ ArrGet(bus.vram, STACK_ADDR + ((cpu.stack_ptr + 254) % 256)) = \hDF
    /\ cpu.status = \hEF
    /\ cpu.program_counter = \h0620
\* PLP has popped 0x10 (Break alone): the status is 0x20
C26_WitnessPlp ==
    /\ Stepped /\ last.data = \h28
    /\ ArrGet(bus.vram, STACK_ADDR + cpu.stack_ptr) = \h10
    /\ cpu.status = \h20

-----------------------------------------------------------------------------
(* Index registers: INX, the store STA z,X and the address of (z),Y.       *)

\* LDA #v; TAX; INX; BRK for every byte v, and test_inx_overflow
InxProgram(v) == <<\hA9, v, \hAA, \hE8, \h00>>
InxOverflowProgram == <<\hA2, \hFF, \hE8, \hE8, \h00>>
\* LDX #x; LDA #a; STA z,X
StaZeroPageXProgram(z, x, a) == <<\hA2, x, \hA9, a, \h95, z>>
\* LDA #lo; STA z; LDA #hi; STA z+1; LDY #y; ORA (z),Y; STA (z),Y
IndirectYProgram(z, lo, hi, y) ==
    <<\hA9, lo, \h85, z, \hA9, hi, \h85, (z + 1) % 256, \hA0, y, \h11, z, \h91, z>>
IndexEdge == {\h00, \h01, \h02, \h80, \hFF}
IndexPrograms ==
    { InxProgram(v) : v \in Byte } \cup { InxOverflowProgram }
        \cup { StaZeroPageXProgram(z, x, a) :
                   z \in {\h00, \h28, \h80, \hFE, \hFF}, x \in IndexEdge, a \in {\h00, \h09, \hFF} }
        \cup { IndirectYProgram(z, p[1], p[2], y) :
                   z \in {\h00, \h33, \hFE, \hFF},
                   p \in {<<\h00, \h04>>, <<\hFF, \h07>>, <<\h80, \h01>>, <<\hFF, \hFF>>},
                   y \in {\h00, \h01, \hFF} }

NextIndex ==
    \/ RunAny(IndexPrograms)
    \/ Step
SpecIndex == InitCpu /\ [][NextIndex]_vars

\* the program in RAM at 0x0600 is this one, and the loop has returned on
\* the BRK that ends it
EndedProgram(program) ==
    /\ Returned /\ last.op = "step" /\ last.data = \h00
    /\ last.addr = \h0600 + Len(program) - 1
    /\ \A i \in 1 .. Len(program) : Ram(\h0600 + i - 1) = program[i]
\* Zero and Negative are those of the byte
ZeroNegativeOf(status, byte) ==
    /\ FlagContains(status, ZERO) <=> byte = 0
    /\ FlagContains(status, NEGATIVE) <=> byte >= 128

\* C27: `LDA #v; TAX; INX; BRK` ends with A = v and X = (v + 1) mod 256 for
\* every byte v, `LDX #$FF; INX; INX; BRK` ends with X = 1, and Zero and
\* Negative are those of the final X; INX itself adds one modulo 256.
C27_InxWraps ==
    [][ /\ Executes(\hE8) =>
               /\ cpu'.register_x = (cpu.register_x + 1) % 256
               /\ ZeroNegativeOf(cpu'.status, cpu'.register_x)
               /\ cpu'.register_a = cpu.register_a
        /\ \A v \in {Ram(\h0601)} :
               EndedProgram(InxProgram(v)) =>
                   /\ cpu.register_a = v
                   /\ cpu.register_x = (v + 1) % 256
                   /\ ZeroNegativeOf(cpu.status, (v + 1) % 256)
        /\ EndedProgram(InxOverflowProgram) =>
               /\ cpu.register_x = 1
               /\ ZeroNegativeOf(cpu.status, 1)
      ]_vars
\* LDA #5; TAX; INX; BRK has ended: A = 5, X = 6, Zero and Negative clear
C27_Witness ==
    /\ EndedProgram(InxProgram(5))
    /\ cpu.register_a = 5 /\ cpu.register_x = 6
    /\ ~FlagContains(cpu.status, ZERO) /\ ~FlagContains(cpu.status, NEGATIVE)
\* LDA #$FF; TAX; INX; BRK has ended: X has wrapped to 0 and Zero is set
C27_WitnessWrap ==
    /\ EndedProgram(InxProgram(\hFF))
    /\ cpu.register_a = \hFF /\ cpu.register_x = 0
    /\ FlagContains(cpu.status, ZERO) /\ ~FlagContains(cpu.status, NEGATIVE)

\* the operand byte of the instruction about to run
OperandByte == Ram(cpu.program_counter + 1)
\* the machine about to take the operand address of an instruction whose
\* operand byte z is at 0x0010, with x in X
AtOperand(z, x) ==
    Machine([cpu EXCEPT !.program_counter = \h0010, !.register_x = x],
            [bus EXCEPT !.vram = ArrSet(bus.vram, \h0010, z)])

\* C28: STA z,X (0x95) writes A to the cell (z + X) mod 256, which is in page
\* zero, changes no other memory cell and leaves A and all flags unchanged,
\* for every z, X and A.
C28_StaZeroPageX ==
    [][ /\ Executes(\h95) =>
               /\ ArrGet(bus'.vram, (OperandByte + cpu.register_x) % 256) = cpu.register_a
               /\ OnlyCellChanged((OperandByte + cpu.register_x) % 256)
               /\ cpu'.register_a = cpu.register_a
               /\ cpu'.status = cpu.status
        /\ (Executes(\h95) /\ OperandByte = \h28 /\ cpu.register_x = 2) =>
               \A z \in Byte, x \in Byte :
                   /\ GetOperandAddress(AtOperand(z, x), "ZeroPage_X").v = (z + x) % 256
                   /\ Sta(AtOperand(z, x), "ZeroPage_X").bus.vram
                          = ArrSet(AtOperand(z, x).bus.vram, (z + x) % 256, cpu.register_a)
      ]_vars
\* LDX #2; LDA #9; STA $28,X has run: 0x09 is at 0x002A
C28_Witness ==
    /\ Stepped /\ last.data = \h95
    /\ Ram(\h0605) = \h28 /\ cpu.register_x = 2 /\ cpu.register_a = \h09
    /\ Ram(\h002A) = \h09 /\ Ram(\h0028) = 0
\* LDX #$FF; LDA #$FF; STA $FF,X has run: 0xFF is at 0x00FE, not at 0x01FE
C28_WitnessWrap ==
    /\ Stepped /\ last.data = \h95
    /\ Ram(\h0605) = \hFF /\ cpu.register_x = \hFF /\ cpu.register_a = \hFF
    /\ Ram(\h00FE) = \hFF /\ Ram(\h01FE) = 0

\* the address (z),Y names when the memory is mem: the pointer is read at z
\* and at (z + 1) mod 256, Y is added modulo 2^16
IndirectYAddress(mem, z, y) == (ArrGet(mem, z) + 256 * ArrGet(mem, (z + 1) % 256) + y) % 65536
\* a page zero whose 256 cells all differ from their neighbours
ZeroPageImage == [i \in 0 .. 255 |-> (7 * i + 3) % 256]
\* the machine about to take the operand address of an instruction whose
\* operand byte z is at 0x0300, with y in Y and page zero as in ZeroPageImage
AtIndirectY(z, y) ==
    Machine([cpu EXCEPT !.program_counter = \h0300, !.register_y = y],
            [bus EXCEPT !.vram = ArrSet(ZeroPageImage, \h0300, z)])
\* the machine once the opcode of the instruction about to run is fetched
AfterFetch == Machine([cpu EXCEPT !.program_counter = cpu.program_counter + 1], bus)

\* C29: the address of (z),Y is ((mem[z] | mem[(z + 1) mod 256] << 8) + Y)
\* mod 2^16, the pointer's high byte being fetched inside page zero even when
\* z = 0xFF; with mem[0x33] = 0x00, mem[0x34] = 0x04 and Y = 0, ORA ($33),Y
\* reads from 0x0400.
C29_IndirectIndexed ==
    [][ /\ (Executes(\h11) \/ Executes(\h91)) =>
               GetOperandAddress(AfterFetch, "Indirect_Y").v
                   = IndirectYAddress(bus.vram, OperandByte, cpu.register_y)
        /\ Executes(\h11) =>
               cpu'.register_a
                   = BitOr(cpu.register_a,
                           Peek(bus, IndirectYAddress(bus.vram, OperandByte, cpu.register_y)))
        /\ Executes(\h91) =>
               Peek(bus', IndirectYAddress(bus.vram, OperandByte, cpu.register_y))
                   = cpu.register_a
        /\ (Executes(\h11) /\ OperandByte = \h33 /\ cpu.register_y = 0) =>
               \A z \in Byte, y \in Byte :
                   GetOperandAddress(AtIndirectY(z, y), "Indirect_Y").v
                       = IndirectYAddress(ZeroPageImage, z, y)
      ]_vars
\* mem[0x33] = 0x00, mem[0x34] = 0x04, Y = 0: ORA ($33),Y has left A = 0x04
\* and STA ($33),Y has written it at 0x0400
C29_Witness ==
    /\ Stepped /\ last.data = \h91 /\ Ram(\h060D) = \h33
    /\ Ram(\h0033) = \h00 /\ Ram(\h0034) = \h04 /\ cpu.register_y = 0
    /\ cpu.register_a = \h04 /\ Ram(\h0400) = \h04
\* z = 0xFF with mem[0xFF] = 0x80, mem[0x00] = 0x01 and Y = 1: the store has
\* gone to 0x0181
C29_WitnessWrap ==
    /\ Stepped /\ last.data = \h91 /\ Ram(\h060D) = \hFF
    /\ Ram(\h00FF) = \h80 /\ Ram(\h0000) = \h01 /\ cpu.register_y = 1
    /\ Ram(\h0181) = \h01 /\ Ram(\h0081) = 0

-----------------------------------------------------------------------------
(* The program counter after an instruction.                               *)

\* jumps to the jump's own operand byte and elsewhere, directly and through
\* a pointer, and a run of instructions with 0, 1 and 2 operand bytes
JumpPrograms ==
    { <<\h4C, \h01, \h06>>,                        \* JMP $0601
      <<\h4C, \h10, \h06>>,                        \* JMP $0610
      <<\h6C, \h03, \h06, \h10, \h06>>,            \* JMP ($0603), which holds 0x0610
      <<\h6C, \h03, \h06, \h01, \h06>>,            \* JMP ($0603), which holds 0x0601
      \* LDA #1; STA $0200; INX; NOP; LDA $0200; ORA ($10,X)
      <<\hA9, \h01, \h8D, \h00, \h02, \hE8, \hEA, \hAD, \h00, \h02, \h01, \h10>> }

NextAdvance ==
    \/ RunAny(JsrPrograms \cup BranchPrograms \cup JumpPrograms)
    \/ Step
SpecAdvance == InitFlow /\ [][NextAdvance]_vars

\* the instruction about to run sets the program counter itself: JMP, JSR,
\* RTS, RTI, and a branch whose condition holds
Redirects(op) ==
    \/ op \in {\h4C, \h6C, \h20, \h60, \h40}
    \/ op \in BranchOps /\ BranchCondition(op, cpu.status)
\* the program counter as the instruction about to run leaves it, before the
\* loop's advance: the target of a JMP, JSR, RTS, RTI or taken branch
TargetOf(op) == Exec(AfterFetch, op, OpCodeMode(op)).cpu.program_counter
\* the address after the instruction about to run and its operand bytes
NextInLine(op) == (cpu.program_counter + 1 + OpCodeAdditionalBytes(op)) % 65536
\* the address of the first operand byte of the instruction about to run
OwnOperand == (cpu.program_counter + 1) % 65536

\* C30: the operand-byte advance is applied exactly when the instruction did
\* not redirect the program counter: after a JMP, JSR or taken branch the
\* next fetch is at the target, whatever the target, the address of the
\* instruction's own first operand byte included; after any other
\* instruction at P it is at P + 1 + operand-byte count.
C30_AdvanceRule ==
    [][ \A op \in {last'.data} :
          Executes(op) =>
            /\ Redirects(op) => cpu'.program_counter = TargetOf(op)
            /\ (~Redirects(op) /\ op # \h00) => cpu'.program_counter = NextInLine(op)
      ]_vars
\* C30, as the code has it: a JMP, JSR or taken branch whose target is the
\* address of its own first operand byte is followed by the operand-byte
\* advance all the same; a pass that fetches any other opcode but BRK, JMP,
\* JSR, RTS, RTI or a branch ends at P + 1 + operand-byte count.
C30_AdvanceRuleAsCoded ==
    [][ /\ \A op \in {last'.data} :
             Executes(op) =>
               /\ (Redirects(op) /\ TargetOf(op) # OwnOperand) =>
                      cpu'.program_counter = TargetOf(op)
               /\ (Redirects(op) /\ TargetOf(op) = OwnOperand) =>
                      cpu'.program_counter = NextInLine(op)
               /\ (~Redirects(op) /\ op # \h00) => cpu'.program_counter = NextInLine(op)
        /\ (Executes(\h4C) /\ cpu'.program_counter = \h0610) =>
               \A op \in Byte \ ({\h00, \h4C, \h6C, \h20, \h60, \h40} \cup BranchOps) :
                   \/ Panicked(RunLoopBody(AboutToFetch(op)).m)
                   \/ RunLoopBody(AboutToFetch(op)).m.cpu.program_counter
                          = \h0010 + 1 + OpCodeAdditionalBytes(op)
      ]_vars
\* JMP $0601 at 0x0600 has run: the program counter is 0x0603
C30_Witness ==
    /\ Stepped /\ last.data = \h4C /\ last.addr = \h0600
    /\ Ram(\h0601) = \h01 /\ Ram(\h0602) = \h06
    /\ cpu.program_counter = \h0603
\* JMP $0610 at 0x0600 has run: the program counter is 0x0610
C30_WitnessElsewhere ==
    /\ Stepped /\ last.data = \h4C /\ last.addr = \h0600
    /\ Ram(\h0601) = \h10 /\ Ram(\h0602) = \h06
    /\ cpu.program_counter = \h0610

-----------------------------------------------------------------------------
(* The scan-line counter.                                                   *)

MaxCycles == 90000     \* sum of the arguments of tick in a session

\* the arguments given to tick
TickArgs == {0, 1, 86, 255}

InitTicks == InitWith({TestRom}, {FALSE})
\* a session of tick calls only; nops is the sum of their arguments
NextTicks ==
    \E cycles \in TickArgs :
        /\ nops + cycles <= MaxCycles
        /\ nops' = nops + cycles
        /\ TickOp(cycles)
SpecTicks == InitTicks /\ [][NextTicks]_vars

\* C31: after tick calls whose arguments sum to N, cycles = N mod 341 and
\* scan_line = (N div 341) mod 262; so 0 <= cycles < 341 and
\* 0 <= scan_line < 262 in every state, and one tick never advances
\* scan_line by more than one.
C31_ScanLineArithmetic ==
    [][ /\ bus'.ppu.cycles = nops' % 341
        /\ bus'.ppu.scan_line = (nops' \div 341) % 262
        /\ bus'.ppu.cycles >= 0 /\ bus'.ppu.cycles < 341
        /\ bus'.ppu.scan_line >= 0 /\ bus'.ppu.scan_line < 262
        /\ bus'.ppu.scan_line \in {bus.ppu.scan_line, (bus.ppu.scan_line + 1) % 262}
        /\ (last'.data = 255 /\ bus.ppu.cycles \in {0, 85, 86, 340}) =>
               \A c \in Byte :
                   /\ PPUTick(bus.ppu, c).ppu.cycles = (nops + c) % 341
                   /\ PPUTick(bus.ppu, c).ppu.scan_line = ((nops + c) \div 341) % 262
      ]_vars
\* the arguments sum to 262 * 341 + 342: the second frame is at scan line 1,
\* cycle 1
C31_Witness ==
    /\ last.op = "tick" /\ nops = 262 * 341 + 342
    /\ bus.ppu.scan_line = 1 /\ bus.ppu.cycles = 1

-----------------------------------------------------------------------------
(* The palette through the data port.                                      *)

\* the cell of the 32-byte palette table a pointer p in 0x3F00..=0x3FFF
\* stands for: the table repeats every 32 bytes, and 0x10, 0x14, 0x18 and
\* 0x1C stand for 0x00, 0x04, 0x08 and 0x0C
PaletteCell(p) ==
    IF ((p - 16128) % 32) \in {16, 20, 24, 28} THEN ((p - 16128) % 32) - 16 ELSE (p - 16128) % 32
\* the pointer is in the palette range
InPalette(p) == p >= 16128 /\ p <= 16383
\* this read of Data returns the palette entry at once and leaves the buffer
DirectPaletteRead ==
    /\ panic' = "none"
    /\ last'.ret = ArrGet(bus.ppu.palette_table, PaletteCell(Pointer(bus.ppu)))
    /\ bus'.ppu.data_buffer = bus.ppu.data_buffer
\* on this PPU, a byte written with the pointer at p is returned at once by a
\* read with the pointer at q, which leaves the buffer alone
PaletteReadsBack(ppu, p, q) ==
    /\ ~Panicked(WritePpuData(PointAt(ppu, p), \h5A))
    /\ ReadPpuData(PointAt(WrittenAt(ppu, p, \h5A), q))
           = [ppu |-> IncrementVramPtr(PointAt(WrittenAt(ppu, p, \h5A), q)), v |-> \h5A, panic |-> "none"]
\* the first access of a session that has set the pointer to 0x3F00
FirstPaletteRead == IsDataRead /\ Pointer(bus.ppu) = 16128 /\ nops = 1

\* C32: a read of 0x2007 with the pointer p in 0x3F00..=0x3FFF returns the
\* palette entry for p in the same call, leaves the read buffer unchanged and
\* never indexes outside the 32-byte table; 0x3F10, 0x3F14, 0x3F18 and 0x3F1C
\* read and write the cells of 0x3F00, 0x3F04, 0x3F08 and 0x3F0C.
C32_PaletteRead ==
    [][ /\ (IsDataRead /\ InPalette(Pointer(bus.ppu))) => DirectPaletteRead
        /\ FirstPaletteRead =>
               /\ \A p \in 16128 .. 16383 : PaletteReadsBack(bus.ppu, p, p)
               /\ \A p \in {16144, 16148, 16152, 16156} :
                      PaletteReadsBack(bus.ppu, p, p - 16) /\ PaletteReadsBack(bus.ppu, p - 16, p)
      ]_vars
\* C32, as the code has it: so for the pointers 0x3F00..=0x3F1F; a read or a
\* write with the pointer in 0x3F20..=0x3FFF indexes the table at 32 or
\* above and faults.
C32_PaletteReadAsCoded ==
    [][ /\ (IsDataRead /\ InPalette(Pointer(bus.ppu)) /\ Pointer(bus.ppu) < 16160) => DirectPaletteRead
        /\ (IsDataRead /\ InPalette(Pointer(bus.ppu)) /\ Pointer(bus.ppu) >= 16160) => panic' # "none"
        /\ FirstPaletteRead =>
               /\ \A p \in 16128 .. 16159 : PaletteReadsBack(bus.ppu, p, p)
               /\ \A p \in {16144, 16148, 16152, 16156} :
                      PaletteReadsBack(bus.ppu, p, p - 16) /\ PaletteReadsBack(bus.ppu, p - 16, p)
               /\ \A p \in 16160 .. 16383 :
                      /\ ReadPpuData(PointAt(bus.ppu, p)).panic # "none"
                      /\ WritePpuData(PointAt(bus.ppu, p), \h5A).panic # "none"
      ]_vars
\* 0x5A was written at 0x3F00 and a read there has returned it at once; the
\* buffer is still 0
C32_Witness ==
    /\ WasDataRead /\ last.ret = \h5A
    /\ Pointer(bus.ppu) = 16129
    /\ bus.ppu.data_buffer = 0
    /\ ArrGet(bus.ppu.palette_table, 0) = \h5A
\* the pointer was set to 0x3F20 and a read of Data has faulted
C32_ReadFaults ==
    /\ last.op = "ppu_read" /\ last.addr = \h2007 /\ panic # "none"
    /\ Pointer(bus.ppu) = 16161


(***************************************************************************)
(* The VRAM pointer across accesses of Data                                *)
(***************************************************************************)
\* this step is an access of Data (0x2007), read or write, completed or not
IsDataAccess == last'.op \in {"ppu_read", "ppu_write"} /\ last'.addr = \h2007
\* the address register holding the pointer p
RegisterAt(p) == [hi |-> p \div 256, lo |-> p % 256, address_latch |-> TRUE]
\* the first step of a run is a read of Data
FirstDataRead == IsDataRead /\ nops = 0

\* C33: every read or write of 0x2007 moves the VRAM pointer from p to
\* (p + inc) mod 0x4000, inc being 32 when Control's VRAM-increment bit is
\* set and 1 otherwise; the access itself uses p: a write in the nametables
\* stores at p's cell, a read at p <= 0x2FFF buffers p's byte, a read in the
\* palette returns p's entry; and after every step the pointer is within
\* 0..=0x3FFF.  The increment is also checked for every p in 0..=0x3FFF and
\* both increments.
C33_PointerIncrement ==
    [][ /\ Pointer(bus'.ppu) \in 0 .. \h3FFF
        /\ IsDataAccess =>
             LET p == Pointer(bus.ppu)
                 inc == IF BitAnd(bus.ppu.control, \h04) # 0 THEN 32 ELSE 1
             IN  /\ Pointer(bus'.ppu) = (p + inc) % 16384
                 /\ (panic' = "none" /\ last'.op = "ppu_write" /\ p \in \h2000 .. \h2FFF) =>
                        ArrGet(bus'.ppu.vram, MirrorVram(bus.ppu, p)) = last'.data
                 /\ (panic' = "none" /\ last'.op = "ppu_read" /\ p <= \h2FFF) =>
                        bus'.ppu.data_buffer = ByteAt(bus.ppu, p)
                 /\ (panic' = "none" /\ last'.op = "ppu_read" /\ p >= \h3F00) =>
                        last'.ret = ArrGet(bus.ppu.palette_table, PaletteCell(p))
        /\ FirstDataRead =>
             \A p \in 0 .. \h3FFF : \A inc \in {1, 32} :
                 AddressRegisterGet(AddressRegisterIncrement(RegisterAt(p), inc))
                     = (p + inc) % 16384
      ]_vars
\* a write of Data with increment 32 at 0x20FF stored 0x5A at that cell and
\* carried the pointer into the next page, 0x211F
C33_Witness ==
    /\ last.op = "ppu_write" /\ last.addr = \h2007 /\ panic = "none"
    /\ BitAnd(bus.ppu.control, \h04) # 0
    /\ Pointer(bus.ppu) = \h211F
    /\ ArrGet(bus.ppu.vram, \hFF) = \h5A
\* an access of Data at 0x3FFF with increment 1 left the pointer at 0x0000
C33_WitnessWrap ==
    /\ last.op \in {"ppu_read", "ppu_write"} /\ last.addr = \h2007
    /\ hist.addr_writes = 0 /\ nops = 3 /\ panic # "none"
    /\ Pointer(bus.ppu) = 0
    /\ BitAnd(bus.ppu.control, \h04) = 0


(***************************************************************************)
(* JMP (addr): the pointer at a page boundary                              *)
(***************************************************************************)
\* LDA #lo; STA p; LDA #hi; STA q; LDA #other; STA r; JMP (p): the pointer's
\* low byte is at p, and q and r are the two places its high byte may be
\* looked for
PointerProgram(p, q, r, lo, hi, other) ==
    <<\hA9, lo, \h8D, p % 256, p \div 256,
      \hA9, hi, \h8D, q % 256, q \div 256,
      \hA9, other, \h8D, r % 256, r \div 256,
      \h6C, p % 256, p \div 256>>
\* pointers at the end of a page (high byte at the start of that page), in
\* the middle of one, at the end of page zero; and pointers in the program
\* ROM, which the program cannot change
IndirectPrograms ==
    { PointerProgram(\h02FF, \h0200, \h0300, t[1], t[2], t[3]) :
          t \in { <<\h10, \h07, \h05>>, <<\h00, \h03, \h07>> } }
      \cup { PointerProgram(\h0280, \h0281, \h0200, t[1], t[2], t[3]) :
          t \in { <<\h10, \h07, \h05>>, <<\h00, \h03, \h07>> } }
      \cup { PointerProgram(\h00FF, \h0000, \h0100, \h20, \h07, \h05),
             PointerProgram(\h02FE, \h02FF, \h0200, \h20, \h07, \h05) }
      \cup { <<\h6C, \hFF, \h80>>, <<\h6C, \hFF, \hFF>>, <<\h6C, \h34, \h92>> }
NextIndirect ==
    \/ RunAny(IndirectPrograms)
    \/ Step
SpecIndirect == InitCpu /\ [][NextIndirect]_vars

\* the word at the two operand bytes of the instruction about to run
OperandWord == FromLeBytes(Peek(bus, (cpu.program_counter + 1) % 65536),
                           Peek(bus, (cpu.program_counter + 2) % 65536))
\* where the high byte of the pointer at addr is fetched
HighByteAddress(addr) == IF addr % 256 = \hFF THEN addr - \hFF ELSE addr + 1
\* the target of JMP (addr) in memory b
IndirectTarget(b, addr) == FromLeBytes(Peek(b, addr), Peek(b, HighByteAddress(addr)))
\* RAM with a different byte in every cell of a page
RamImage == [i \in 0 .. 2047 |-> (7 * i + 3 + (i \div 256)) % 256]
\* the machine whose program counter is at the two operand bytes of a
\* JMP (addr), with RAM as in RamImage
AtPointer(addr) ==
    Machine([cpu EXCEPT !.program_counter = \h0010],
            [bus EXCEPT !.vram = (\h0010 :> addr % 256) @@ (\h0011 :> addr \div 256) @@ RamImage])
\* the machine apart from the program counter
Elsewhere(m) == [m EXCEPT !.cpu.program_counter = 0]

\* C34: JMP (addr), opcode 0x6C, goes to the address whose low byte is
\* mem[addr] and whose high byte is mem[addr + 1] when the low byte of addr
\* is not 0xFF, and mem[addr & 0xFF00] when it is; and for every addr the
\* Indirect arm of get_absolute_address gives the address the 0x6C arm jumps
\* to, with the same reads.
C34_IndirectJump ==
    [][ /\ Executes(\h6C) =>
             /\ TargetOf(\h6C) = IndirectTarget(bus, OperandWord)
             /\ cpu'.program_counter = IndirectTarget(bus, OperandWord)
        /\ (Executes(\h6C) /\ OperandWord = \h80FF /\ overflow_checks) =>
             \A addr \in 0 .. 65535 :
                 LET byMode == GetAbsoluteAddress(AtPointer(addr), "Indirect", \h0010)
                     byArm == JmpIndirect(AtPointer(addr))
                 IN  /\ byMode.m.panic = byArm.panic
                     /\ byMode.m.panic = "none" =>
                          /\ byMode.v = byArm.cpu.program_counter
                          /\ Elsewhere(byMode.m) = Elsewhere(byArm)
                          /\ byMode.v = IndirectTarget(AtPointer(addr).bus, addr)
      ]_vars
\* JMP ($02FF) with mem[0x02FF] = 0x10, mem[0x0200] = 0x07 and
\* mem[0x0300] = 0x05 has gone to 0x0710, and the loop has returned on the
\* BRK there
C34_Witness ==
    /\ Returned /\ last.op = "step" /\ last.data = \h00 /\ last.addr = \h0710
    /\ Ram(\h02FF) = \h10 /\ Ram(\h0200) = \h07 /\ Ram(\h0300) = \h05
    /\ Ram(\h060F) = \h6C /\ Ram(\h0610) = \hFF /\ Ram(\h0611) = \h02
\* JMP ($0280) with mem[0x0280] = 0x10 and mem[0x0281] = 0x07 has gone to
\* 0x0710
C34_WitnessInsidePage ==
    /\ last.op = "step" /\ last.data = \h6C /\ panic = "none"
    /\ cpu.program_counter = \h0710
    /\ Ram(\h0280) = \h10 /\ Ram(\h0281) = \h07 /\ Ram(\h0200) = \h05


(***************************************************************************)
(* DCP: decrement memory, then compare with the accumulator                *)
(***************************************************************************)
\* LDA #m; STA $10; SEC or CLC; LDA #a; DCP $10
DcpProgram(m, f, a) == <<\hA9, m, \h85, \h10, f, \hA9, a, \hC7, \h10>>
DcpEdge == {\h00, \h01, \h02, \h7F, \h80, \h81, \hFF}
DcpPrograms == { DcpProgram(m, f, a) : m \in DcpEdge, f \in {\h18, \h38}, a \in DcpEdge }
NextDcp ==
    \/ RunAny(DcpPrograms)
    \/ Step
SpecDcp == InitCpu /\ [][NextDcp]_vars

\* the machine about to take the operand of DCP $10, with a in A, m at 0x0010
\* and Carry as given
AtDcp(a, m, carry) ==
    Machine([cpu EXCEPT !.program_counter = \h0300, !.register_a = a,
                        !.status = IF carry THEN BitOr(cpu.status, CARRY)
                                   ELSE BitAnd(cpu.status, 255 - CARRY)],
            [bus EXCEPT !.vram = (\h0300 :> \h10) @@ (\h0010 :> m) @@ bus.vram])
\* Zero and Negative are those of a - m, and A is a
ComparedWith(c, a, m) ==
    /\ c.register_a = a
    /\ ZeroNegativeOf(c.status, (a + 256 - m) % 256)
    /\ FlagContains(c.status, ZERO) <=> a = m

\* C35: DCP writes m' = (m - 1) mod 256 back and sets the flags as CMP of A
\* against m' does: Carry is set when A >= m' and cleared otherwise, Zero is
\* set exactly when A = m', Negative is bit 7 of A - m'; A is unchanged.
C35_Dcp ==
    [][ Executes(\hC7) =>
          LET m1 == (Ram(OperandByte) + 255) % 256
          IN  /\ ArrGet(bus'.vram, OperandByte) = m1
              /\ ComparedWith(cpu', cpu.register_a, m1)
              /\ FlagContains(cpu'.status, CARRY) <=> cpu.register_a >= m1
      ]_vars
\* C35, as the code has it: the memory byte, Zero, Negative and A are as
\* stated, and Carry is set when A >= m' and left as it was otherwise; for
\* every a, m and Carry.
C35_DcpAsCoded ==
    [][ /\ Executes(\hC7) =>
          LET m1 == (Ram(OperandByte) + 255) % 256
          IN  /\ ArrGet(bus'.vram, OperandByte) = m1
              /\ ComparedWith(cpu', cpu.register_a, m1)
              /\ FlagContains(cpu'.status, CARRY)
                   <=> (cpu.register_a >= m1 \/ FlagContains(cpu.status, CARRY))
        /\ (Executes(\hC7) /\ cpu.register_a = \h7F /\ Ram(\h10) = \h7F) =>
             \A a \in Byte, m \in Byte, carry \in BOOLEAN :
                 LET after == Dcp(AtDcp(a, m, carry), "ZeroPage")
                     m1 == (m + 255) % 256
                 IN  /\ after.panic = "none"
                     /\ ArrGet(after.bus.vram, \h10) = m1
                     /\ ComparedWith(after.cpu, a, m1)
                     /\ FlagContains(after.cpu.status, CARRY) <=> (a >= m1 \/ carry)
      ]_vars
\* SEC; LDA #$02; DCP on a cell holding 2: the cell holds 1, Carry is set,
\* Zero and Negative are clear and the loop has returned on the BRK
C35_Witness ==
    /\ EndedProgram(DcpProgram(\h02, \h38, \h02) \o <<\h00>>)
    /\ cpu.register_a = \h02 /\ Ram(\h10) = \h01
    /\ FlagContains(cpu.status, CARRY)
    /\ ~FlagContains(cpu.status, ZERO) /\ ~FlagContains(cpu.status, NEGATIVE)
\* SEC; LDA #$00; DCP on a cell holding 2 has left Carry set although
\* A = 0 is below the new byte 1
C35_CarryLeftSet ==
    /\ last.op = "step" /\ last.data = \hC7 /\ panic = "none"
    /\ cpu.register_a = \h00 /\ Ram(\h10) = \h01
    /\ FlagContains(cpu.status, CARRY)


(***************************************************************************)
(* ASL, LSR, ROL, ROR on the accumulator and on memory                     *)
(***************************************************************************)
\* the accumulator form and the zero-page form of each instruction
AccumulatorForm == [ASL |-> \h0A, LSR |-> \h4A, ROL |-> \h2A, ROR |-> \h6A]
MemoryForm == [ASL |-> \h06, LSR |-> \h46, ROL |-> \h26, ROR |-> \h66]
ShiftKinds == {"ASL", "LSR", "ROL", "ROR"}
\* LDA #v; STA $10; SEC or CLC; <accumulator form>; LDA #w; SEC or CLC;
\* <memory form> $10
ShiftProgram(kind, v, f, w) ==
    <<\hA9, v, \h85, \h10, f, AccumulatorForm[kind], \hA9, w, f, MemoryForm[kind], \h10>>
ShiftEdge == {\h00, \h01, \h40, \h7F, \h80, \h81, \hFF}
ShiftPrograms ==
    { ShiftProgram(kind, v, f, \h33) : kind \in ShiftKinds, v \in ShiftEdge, f \in {\h18, \h38} }
NextShift ==
    \/ RunAny(ShiftPrograms)
    \/ Step
SpecShift == InitCpu /\ [][NextShift]_vars

\* the byte each instruction makes of v with carry-in c, and the carry out
ShiftResult(kind, v, c) ==
    CASE kind = "ASL" -> (2 * v) % 256
      [] kind = "LSR" -> v \div 2
      [] kind = "ROL" -> (2 * v + c) % 256
      [] kind = "ROR" -> (v \div 2) + 128 * c
ShiftCarryOut(kind, v) ==
    IF kind \in {"ASL", "ROL"} THEN v >= 128 ELSE v % 2 = 1
\* Carry, Zero and Negative of a status byte
CarryZeroNegative(status) == BitAnd(status, BitOr(CARRY, BitOr(ZERO, NEGATIVE)))
\* Carry, Zero and Negative are those of the instruction applied to v with
\* carry-in c
ShiftFlags(status, kind, v, c) ==
    /\ FlagContains(status, CARRY) <=> ShiftCarryOut(kind, v)
    /\ ZeroNegativeOf(status, ShiftResult(kind, v, c))
\* the machine about to run an accumulator form with v in A, and the machine
\* about to take the operand of a memory form with v at 0x0010 and w in A;
\* the carry is c
WithCarry(c) == IF c = 1 THEN BitOr(cpu.status, CARRY) ELSE BitAnd(cpu.status, 255 - CARRY)
AtAccumulatorForm(v, c) ==
    Machine([cpu EXCEPT !.program_counter = \h0300, !.register_a = v, !.status = WithCarry(c)],
            bus)
AtMemoryForm(v, c, w) ==
    Machine([cpu EXCEPT !.program_counter = \h0300, !.register_a = w, !.status = WithCarry(c)],
            [bus EXCEPT !.vram = (\h0300 :> \h10) @@ (\h0010 :> v) @@ bus.vram])

\* C36: for ASL, LSR, ROL and ROR, every byte v and every carry-in c, the
\* accumulator form and the memory form compute the same result and the same
\* Carry, Zero and Negative; the memory form writes the result back and
\* leaves A as it was.
C36_ShiftForms ==
    [][ /\ \A kind \in ShiftKinds :
             /\ Executes(AccumulatorForm[kind]) =>
                  /\ cpu'.register_a
                       = ShiftResult(kind, cpu.register_a, CarryOf(cpu.status))
                  /\ ShiftFlags(cpu'.status, kind, cpu.register_a, CarryOf(cpu.status))
             /\ Executes(MemoryForm[kind]) =>
                  /\ ArrGet(bus'.vram, OperandByte)
                       = ShiftResult(kind, Ram(OperandByte), CarryOf(cpu.status))
                  /\ ShiftFlags(cpu'.status, kind, Ram(OperandByte), CarryOf(cpu.status))
                  /\ cpu'.register_a = cpu.register_a
        /\ (Executes(\h6A) /\ cpu.register_a = \h81 /\ CarryOf(cpu.status) = 1) =>
             \A kind \in ShiftKinds, v \in Byte, c \in {0, 1} :
                 LET acc == Exec(AtAccumulatorForm(v, c), AccumulatorForm[kind],
                                OpCodeMode(AccumulatorForm[kind]))
                     mem == Exec(AtMemoryForm(v, c, \h33), MemoryForm[kind], "ZeroPage")
                 IN  /\ acc.panic = "none" /\ mem.panic = "none"
                     /\ acc.cpu.register_a = ArrGet(mem.bus.vram, \h10)
                     /\ CarryZeroNegative(acc.cpu.status) = CarryZeroNegative(mem.cpu.status)
                     /\ mem.cpu.register_a = \h33
                     /\ acc.cpu.register_a = ShiftResult(kind, v, c)
      ]_vars
\* SEC; ROR A with A = 0x81 and then SEC; ROR $10 with 0x81 at 0x0010 and
\* 0x33 in A: the cell holds 0xC0 as A did, A is still 0x33, Carry and
\* Negative are set
C36_Witness ==
    /\ EndedProgram(ShiftProgram("ROR", \h81, \h38, \h33) \o <<\h00>>)
    /\ Ram(\h10) = \hC0 /\ cpu.register_a = \h33
    /\ FlagContains(cpu.status, CARRY) /\ FlagContains(cpu.status, NEGATIVE)
    /\ ~FlagContains(cpu.status, ZERO)


(***************************************************************************)
(* Sums that pass the width of their type                                  *)
(***************************************************************************)
\* cartridges with code in the last two bytes of the program ROM:
\* LDA absolute at 0xFFFE (its operand word starts at 0xFFFF), and NOP at
\* 0xFFFE with LDA absolute at 0xFFFF (the fetch leaves the program counter
\* at 0x10000)
WrapRoms ==
    { PatchPrg(TestRom, \hFFFE, <<\hAD, \h10>>),
      PatchPrg(TestRom, \hFFFE, <<\hEA, \hAD>>) }
InitWrap == InitWith(WrapRoms, BOOLEAN)
WrapPrograms ==
    { <<\hA9, \hFF, \hA2, \hFF, \hA0, \h01, \h9B, \hFF, \hFF>>,     \* TAS $FFFF,Y with Y = 1
      <<\hA9, \hFF, \hA2, \hFF, \hA0, \h01, \h9B, \h00, \h02>>,     \* TAS $0200,Y
      <<\hA9, \hFF, \hA2, \hFF, \hA0, \h01, \h9F, \hFF, \hFF>>,     \* AHX $FFFF,Y with Y = 1
      <<\hA9, \h03, \hA2, \hFF, \hA0, \h01, \h9F, \hFF, \h02>>,     \* AHX $02FF,Y
      <<\hA2, \hFF, \hA0, \h01, \h9E, \hFF, \hFF>>,                 \* SHX $FFFF,Y with Y = 1
      <<\hA2, \hFF, \hA0, \h01, \h9E, \h00, \h02>>,                 \* SHX $0200,Y
      <<\hA0, \hFF, \hA2, \h01, \h9C, \hFF, \hFF>>,                 \* SHY $FFFF,X with X = 1
      <<\hA0, \hFF, \hA2, \h00, \h9C, \h00, \hFF>>,                 \* SHY $FF00,X: high byte 0xFF
      \* LDA #$FF; STA $10; STA $11; LDY #1; LDX #$FF; AHX ($10),Y
      <<\hA9, \hFF, \h85, \h10, \h85, \h11, \hA0, \h01, \hA2, \hFF, \h93, \h10>>,
      <<\hA2, \h01, \hBD, \hFF, \hFF>>,                             \* LDA $FFFF,X with X = 1
      <<\hA2, \hFF, \h9A, \h68, \h48, \h48>>,                       \* LDX #$FF; TXS; PLA; PHA; PHA
      <<\h4C, \hFE, \hFF>> }                                        \* JMP $FFFE
NextWrap ==
    \/ RunAny(WrapPrograms)
    \/ Step
SpecWrap == InitWrap /\ [][NextWrap]_vars

OverflowFault == "attempt to add with overflow"
\* the opcodes that add an index to their operand word with `+`, and the index
PlainSumOps == {\h9B, \h9C, \h9E, \h9F}
PlainSumIndex(op) == IF op = \h9C THEN cpu.register_x ELSE cpu.register_y
\* of those, the ones that also add one to the high byte of the sum
HighBytePlusOneOps == {\h9B, \h9C, \h9E}
\* the address such an instruction stores at, and the byte it stores, with
\* wrapping sums
PlainSum(op) == OperandWord + PlainSumIndex(op)
WrappedStoreAddress(op) == PlainSum(op) % 65536
WrappedStore(op) ==
    LET hi == WrappedStoreAddress(op) \div 256
        hi1 == (hi + 1) % 256
    IN  CASE op = \h9B -> BitAnd(hi1, BitAnd(cpu.register_a, cpu.register_x))
          [] op = \h9C -> BitAnd(cpu.register_y, hi1)
          [] op = \h9E -> BitAnd(cpu.register_x, hi1)
          [] op = \h9F -> BitAnd(BitAnd(cpu.register_a, cpu.register_x), hi)
\* a sum of the instruction about to run passes the width of its type
SumPassesWidth(op) ==
    \/ PlainSum(op) >= 65536
    \/ op \in HighBytePlusOneOps /\ WrappedStoreAddress(op) \div 256 = \hFF
\* the word AHX (z),Y reads at its operand byte z, plus Y, passes 0xFFFF
IndirectSumPassesWidth ==
    FromLeBytes(Ram(OperandByte), Ram(OperandByte + 1)) + cpu.register_y >= 65536
\* this step is a pass of the loop that fetched op, completed or not
Fetches(op) == last'.op = "step" /\ last'.data = op
\* the pass of the loop about to run adds to a program counter, or reads a
\* word at an address, of 0xFFFF
AtTopOfMemory ==
    \/ cpu.program_counter = \hFFFF
    \/ cpu.program_counter = \hFFFE /\ OpCodeMode(Peek(bus, \hFFFE)) = "Absolute"

\* C37: no CPU step faults because of integer overflow: the program-counter
\* increments, the second-byte address of a 16-bit read at 0xFFFF, the
\* stack pointer, the indexed sums and the sums of TAS, AHX, SHX and SHY
\* wrap modulo 2^8 or 2^16.
C37_NoArithmeticFault ==
    [][ last'.op = "step" => panic' # OverflowFault ]_vars
\* C37, as the code has it: in a build without overflow checks no step
\* faults on a sum and TAS, AHX, SHX and SHY store at the wrapped address the
\* byte made with the wrapped high byte; in a build with overflow checks the
\* step faults whenever the address plus the index of TAS, AHX, SHX or SHY
\* passes 0xFFFF, the high byte plus one passes 0xFF, or the program
\* counter or a word's address is at 0xFFFF, and on no other step.
C37_FaultsWithOverflowChecks ==
    [][ /\ (last'.op = "step" /\ panic' = OverflowFault) =>
              /\ overflow_checks
              /\ \/ AtTopOfMemory
                 \/ \E op \in PlainSumOps : Fetches(op) /\ SumPassesWidth(op)
                 \/ Fetches(\h93) /\ IndirectSumPassesWidth
        /\ \A op \in PlainSumOps :
              /\ (Fetches(op) /\ SumPassesWidth(op) /\ overflow_checks) =>
                     panic' = OverflowFault
              /\ (Fetches(op) /\ ~overflow_checks /\ WrappedStoreAddress(op) < \h0800) =>
                     /\ panic' = "none"
                     /\ ArrGet(bus'.vram, WrappedStoreAddress(op)) = WrappedStore(op)
        /\ (Fetches(\h93) /\ IndirectSumPassesWidth) =>
              IF overflow_checks THEN panic' = OverflowFault
              ELSE LET at == (FromLeBytes(Ram(OperandByte), Ram(OperandByte + 1))
                                 + cpu.register_y) % 65536
                   IN  at < \h0800 =>
                         /\ panic' = "none"
                         /\ ArrGet(bus'.vram, at)
                              = BitAnd(BitAnd(cpu.register_a, cpu.register_x), at \div 256)
        /\ (last'.op = "step" /\ AtTopOfMemory) =>
              IF overflow_checks THEN panic' = OverflowFault
              ELSE panic' = "none"
      ]_vars
\* in a build without overflow checks TAS $FFFF,Y with A = X = 0xFF and
\* Y = 1 has stored 0x01 at 0x0000 and the loop has returned on the BRK
\* after it
C37_Witness ==
    /\ ~overflow_checks
    /\ EndedProgram(<<\hA9, \hFF, \hA2, \hFF, \hA0, \h01, \h9B, \hFF, \hFF, \h00>>)
    /\ Ram(0) = \h01 /\ cpu.stack_ptr = \hFF
\* in a build with overflow checks the same TAS has faulted on its sum
C37_SumFaults ==
    /\ overflow_checks
    /\ last.op = "step" /\ last.data = \h9B /\ panic = OverflowFault
\* in a build without overflow checks the LDA absolute at 0xFFFE has read its
\* operand word at 0xFFFF and 0x0000 and left the program counter at 0x0001
C37_WitnessTopOfMemory ==
    /\ ~overflow_checks
    /\ last.op = "step" /\ last.data = \hAD /\ last.addr = \hFFFE /\ panic = "none"
    /\ cpu.program_counter = \h0001


(***************************************************************************)
(* The 256 opcodes and the Implied mode                                    *)
(***************************************************************************)
\* one program for each opcode byte: the opcode with the operand bytes
\* 0x10 0x02
OpcodePrograms == { <<op, \h10, \h02>> : op \in Byte }
NextOpcodes ==
    \/ RunAny(OpcodePrograms)
    \/ Step
SpecOpcodes == InitCpu /\ [][NextOpcodes]_vars

AddressingModes ==
    { "Immediate", "ZeroPage", "ZeroPage_X", "ZeroPage_Y", "Absolute", "Absolute_X",
      "Absolute_Y", "Indirect", "Indirect_X", "Indirect_Y", "Implied" }
ImpliedFault == "Go to sleep. Why you tryna find a new address bruv."
NotImplemented == "not yet implemented"
\* the panic, if any, of a pass of the loop that fetches op with A, X and Y
\* as they are
FaultOf(op) == RunLoopBody(AboutToFetch(op)).m.panic

\* C38: each of the 256 opcode bytes has a descriptor and a handler, so that
\* no pass of the loop ends in the fall-through arm; asking for the
\* effective address of the Implied mode is a fault, and no pass of the loop
\* ends in it, whichever opcode it fetched.
C38_ImpliedNeverDereferenced ==
    [][ /\ last'.op = "step" =>
             /\ OpCodeMode(last'.data) \in AddressingModes
             /\ panic' \notin {NotImplemented, ImpliedFault}
             /\ GetOperandAddress(AfterFetch, "Implied").m.panic = ImpliedFault
        /\ Executes(\hFA) =>
             \A op \in Byte :
                 /\ OpCodeMode(op) \in AddressingModes
                 /\ FaultOf(op) \notin {NotImplemented, ImpliedFault}
      ]_vars
\* JSR, whose descriptor has the Implied mode and two operand bytes, has
\* completed and gone to 0x0210
C38_Witness ==
    /\ last.op = "step" /\ last.data = \h20 /\ panic = "none"
    /\ OpCodeMode(\h20) = "Implied"
    /\ cpu.program_counter = \h0210
\* the last opcode byte, 0xFF, has a handler too: ISB $0210,X has completed
C38_WitnessLast ==
    /\ last.op = "step" /\ last.data = \hFF /\ panic = "none"
    /\ Ram(\h0210) = \h01


(***************************************************************************)
(* The index into the video RAM, for each Mirroring                        *)
(***************************************************************************)
\* the PPU as PPU::new(chr_rom, mirror_mode) makes it, for each of the three
\* values of Mirroring
MirroringModes == {"HORIZONTAL", "VERTICAL", "FOUR_SCREEN"}
MirrorRoms == { [RomNew(2, 1, \h00) EXCEPT !.mirror_mode = mode] : mode \in MirroringModes }
InitMirror == InitWith(MirrorRoms, {FALSE})
MirrorAddrBytes == {\h20, \h24, \h28, \h2C, \hFF}
NextMirror ==
    /\ nops < MaxData
    /\ nops' = nops + 1
    /\ \/ \E d \in MirrorAddrBytes : PpuWriteOp(\h2006, d)
       \/ \E d \in DataBytes : PpuWriteOp(\h2007, d)
       \/ PpuReadOp(\h2007)
SpecMirror == InitMirror /\ [][NextMirror]_vars

\* this step is an access of Data with the pointer in the nametables
IsNametableAccess == IsDataAccess /\ Pointer(bus.ppu) \in \h2000 .. \h2FFF
VramFault == "index out of bounds: vram"

\* C39: for each Mirroring (Horizontal, Vertical, FourScreen) and every
\* pointer in 0x2000..=0x2FFF the index mirror_vram computes is below 2048,
\* and no read or write of Data indexes outside the video RAM.
C39_NametableIndexBound ==
    [][ /\ IsNametableAccess =>
             /\ MirrorVram(bus.ppu, Pointer(bus.ppu)) < PPU_VRAM_SIZE
             /\ panic' = "none"
        /\ FirstDataRead =>
             \A mode \in MirroringModes : \A p \in \h2000 .. \h2FFF :
                 MirrorVram([bus.ppu EXCEPT !.mirror_mode = mode], p) < PPU_VRAM_SIZE
      ]_vars
\* C39, as the code has it: with Horizontal and Vertical mirroring the index
\* is below 2048 for every pointer in 0x2000..=0x2FFF and the access
\* completes; with FourScreen the index is the pointer minus 0x2000, and an
\* access with the pointer in 0x2800..=0x2FFF faults on the index.
C39_IndexBoundAsCoded ==
    [][ /\ IsNametableAccess =>
             IF bus.ppu.mirror_mode = "FOUR_SCREEN" /\ Pointer(bus.ppu) >= \h2800
             THEN panic' = VramFault
             ELSE /\ MirrorVram(bus.ppu, Pointer(bus.ppu)) < PPU_VRAM_SIZE
                  /\ panic' = "none"
        /\ FirstDataRead =>
             \A p \in \h2000 .. \h2FFF :
                 /\ \A mode \in {"HORIZONTAL", "VERTICAL"} :
                        MirrorVram([bus.ppu EXCEPT !.mirror_mode = mode], p) < PPU_VRAM_SIZE
                 /\ MirrorVram([bus.ppu EXCEPT !.mirror_mode = "FOUR_SCREEN"], p) = p - \h2000
      ]_vars
\* with Vertical mirroring a write of Data at 0x2CFF, in the fourth
\* nametable, has stored at index 0x04FF
C39_Witness ==
    /\ last.op = "ppu_write" /\ last.addr = \h2007 /\ panic = "none"
    /\ bus.ppu.mirror_mode = "VERTICAL"
    /\ Pointer(bus.ppu) = \h2D00
    /\ ArrGet(bus.ppu.vram, \h04FF) = \h5A
\* with FourScreen an access of Data at 0x2800 has faulted on index 2048
C39_FourScreenFaults ==
    /\ bus.ppu.mirror_mode = "FOUR_SCREEN"
    /\ last.addr = \h2007 /\ panic = VramFault
    /\ Pointer(bus.ppu) = \h2801

====
